---------------------------- MODULE Spec2Model ----------------------------
(***************************************************************************)
(* A model of repovul's conversion pipeline: the two-stage hitting-set     *)
(* solver (util.py), the per-repository conversion of OSV entries to       *)
(* vulnerability and revision records (converter.py, osv_group_to_repovul_ *)
(* group and its helpers), and the parallel driver that writes each        *)
(* repository's records in one transaction and keeps the cache             *)
(* (converter.py, convert_list).                                           *)
(*                                                                         *)
(* Versions are small integers (so that sorted() can be computed), commits *)
(* and repository URLs are strings.  A date is a timestamp counted in      *)
(* ticks of 1/TicksPerSecond second; the solver weighs a version by the    *)
(* whole seconds of its date.                                              *)
(***************************************************************************)
EXTENDS Integers, Sequences, FiniteSets, TLC

VARIABLES
    by_repo,        \* Converter.by_repo: repo_url -> the OSV items of the repository
    db,             \* the committed tables of repovul.db: items and revisions
    disk_cache,     \* the cache file: repo_url -> CacheItem
    self_cache,     \* Converter.cache, the driver's cache in memory
    futures,        \* futures_to_repo_urls: per submitted repo_url its task
    pc,             \* where the driver is in convert_list ("idle": no process)
    cur,            \* repo_url of the future being handled
    session,        \* the open Session: the tables as the transaction sees them
    runs,           \* number of convert_list runs started
    ended,          \* how the last convert_list ended ("none": it has not ended)
    handled,        \* per repo_url the status of its last completed handling
    s_lists,        \* solver harness: the `lists` argument
    s_dates,        \* solver harness: the `version_dates` argument
    s_out,          \* solver harness: what the call did (returned list / raised)
    s_pc,           \* solver harness: "ready" before the call, "done" after
    s_cache,        \* solver harness: the CacheItem passed to the call
    data,           \* the JSON flat-file tree under Config.paths.data
    exported,       \* the tables of the store when json_export ran
    worker          \* a worker process inside temp_directory: its position,
                    \* its working directory and the temporary directory

solver_vars == <<s_lists, s_dates, s_out, s_pc, s_cache>>

export_vars == <<data, exported>>

vars == <<by_repo, db, disk_cache, self_cache, futures, pc, cur, session, runs,
          ended, handled, s_lists, s_dates, s_out, s_pc, s_cache, data, exported,
          worker>>

-----------------------------------------------------------------------------
(* Bounds of the model *)

\* number of convert_list runs
MaxRuns == 2

\* dates are drawn from 0..MaxDate (in ticks)
MaxDate == 5

\* resolution of the modelled clock: ticks per second
TicksPerSecond == 2

\* the version strings of the solver harness
SolverVersions == {1, 2, 3}

\* number of lists passed to the solver in the harness
SolverListCounts == {1, 2, 3}

-----------------------------------------------------------------------------
(* Generic helpers *)

Range(s) == {s[i] : i \in DOMAIN s}

RECURSIVE SumOver(_, _)
\* sum(f[x] for x in S)
SumOver(S, f) ==
    IF S = {} THEN 0
    ELSE LET x == CHOOSE y \in S : TRUE
         IN  f[x] + SumOver(S \ {x}, f)

\* every list holding exactly the elements of S once: the orders in which a
\* Python set may be iterated
Orderings(S) ==
    {s \in [1..Cardinality(S) -> S] : \A x \in S : \E i \in DOMAIN s : s[i] = x}

\* the ascending list of a finite set of integers
RECURSIVE SortedSeqOfSet(_)
SortedSeqOfSet(S) ==
    IF S = {} THEN <<>>
    ELSE LET m == CHOOSE x \in S : \A y \in S : x <= y
         IN  <<m>> \o SortedSeqOfSet(S \ {m})

-----------------------------------------------------------------------------
(* util.solve_hitting_set *)

\* parse_version: the integer weight the solver gives a version, int(...timestamp())
parse_version(version_dates, version) == version_dates[version] \div TicksPerSecond

\* all_versions = {version for lst in lists for version in lst}
AllVersionsOf(lists) == UNION {Range(lists[i]) : i \in DOMAIN lists}

\* the cover constraints: for lst in lists: sum(version_vars[v] for v in lst) >= 1
\* (x is the set of versions whose variable is 1)
CoverConstraintsMutant(lists, x) ==
    \A i \in DOMAIN lists : i < Len(lists) => \E j \in DOMAIN lists[i] : lists[i][j] \in x

CoverConstraints(lists, x) ==
    \A i \in DOMAIN lists : \E j \in DOMAIN lists[i] : lists[i][j] \in x

\* stage 1: the assignments satisfying the cover constraints
Stage1Feasible(lists) ==
    {x \in SUBSET AllVersionsOf(lists) : CoverConstraints(lists, x)}

\* min_versions: the optimum of Minimize(sum(version_vars))
MinVersions(lists) ==
    LET F == Stage1Feasible(lists)
        x == CHOOSE y \in F : \A z \in F : Cardinality(y) <= Cardinality(z)
    IN  Cardinality(x)

\* the objective of stage 2: sum(parse_version(v) * version_vars[v])
Stage2Objective(version_dates, x) ==
    SumOver(x, [v \in x |-> parse_version(version_dates, v)])

\* stage 2: the cover constraints plus sum(version_vars) == min_versions
Stage2Feasible(lists) ==
    {x \in Stage1Feasible(lists) : Cardinality(x) = MinVersions(lists)}

Stage2OptimalMutant(lists, version_dates) ==
    LET F == Stage2Feasible(lists)
    IN  {x \in F : \A z \in F :
            Stage2Objective(version_dates, x) <= Stage2Objective(version_dates, z)}

\* the assignments a solver that proves optimality of Maximize(...) may report
Stage2Optimal(lists, version_dates) ==
    LET F == Stage2Feasible(lists)
    IN  {x \in F : \A z \in F :
            Stage2Objective(version_dates, x) >= Stage2Objective(version_dates, z)}

\* The statuses CpSolver.Solve may end with: a model without a feasible
\* assignment is INFEASIBLE; a feasible one is solved to OPTIMAL unless the
\* search is cut short (UNKNOWN).
SolveStatuses(feasible) ==
    IF feasible = {} THEN {"INFEASIBLE"} ELSE {"OPTIMAL", "UNKNOWN"}

Raise(exc) == [raised |-> exc, value |-> <<>>]
Return(v) == [raised |-> "none", value |-> v]

\* solve_hitting_set(lists, version_dates): every outcome the call may have.
\* The returned list enumerates the chosen assignment in the iteration order
\* of the set all_versions.
solve_hitting_set(lists, version_dates) ==
    UNION {
        IF status1 # "OPTIMAL" THEN {Raise("ValueError")}
        ELSE UNION {
            IF status2 # "OPTIMAL" THEN {Raise("ValueError")}
            ELSE UNION {{Return(hitting_set) : hitting_set \in Orderings(x)} :
                        x \in Stage2Optimal(lists, version_dates)}
            : status2 \in SolveStatuses(Stage2Feasible(lists))}
        : status1 \in SolveStatuses(Stage1Feasible(lists))}

-----------------------------------------------------------------------------
(* The repositories and what git and the classifier answer for them *)

RepoUrls == {"R1", "R2"}

\* the version strings OSV entries name
Versions == {1, 2, 3, 4}

\* None, and the unset repo_dir
None == <<>>

\* get_version_commit and get_version_date: the (commit, date) git resolves a
\* version to, None when git does not know it.  Versions 2 and 3 are two tags
\* of one commit; version 4 is unknown to git.  A fork shares its commits
\* with its upstream, so both repositories answer alike.
get_version_info(repo_url, version) ==
    CASE version = 1 -> <<"c1", 2>>
      [] version = 2 -> <<"c2", 4>>
      [] version = 3 -> <<"c2", 4>>
      [] OTHER -> None

\* clone_repo: returns the directory of the clone or raises
ClonedDir == <<"repo_dir">>

CloneOutcomes == {"ok", "RepoNotFoundError", "GitRuntimeError"}

\* compute_code_sizes_at_revision: (languages, size) of the tree at a commit,
\* size being the sum of the languages' byte counts
compute_code_sizes_at_revision(repo_url, commit) ==
    LET languages == IF commit = "c1" THEN [Python |-> 3, C |-> 1]
                     ELSE [Python |-> 5, C |-> 0]
    IN  <<languages, languages.Python + languages.C>>

\* ... or raises
MeasureOutcomes == {"ok", "LinguistError"}

\* datetime.fromtimestamp(date): a datetime keeps the timestamp
fromtimestamp(date) == [timestamp |-> date]

\* CacheItem(): nothing resolved, nothing solved
EmptyCacheItem == [versions_info |-> <<>>, hitting_set_results |-> <<>>]

DictSetMutant(d, k, v) == [x \in {k} |-> v]

\* dict item assignment d[k] = v
DictSet(d, k, v) ==
    [x \in DOMAIN d \cup {k} |-> IF x = k THEN v ELSE d[x]]

-----------------------------------------------------------------------------
(* sorted() *)

\* Python's order on lists of integers (lexicographic)
RECURSIVE ListLeq(_, _)
ListLeq(a, b) ==
    IF a = <<>> THEN TRUE
    ELSE IF b = <<>> THEN FALSE
    ELSE IF Head(a) < Head(b) THEN TRUE
    ELSE IF Head(a) > Head(b) THEN FALSE
    ELSE ListLeq(Tail(a), Tail(b))

\* insertion of x into the ascending list s
RECURSIVE InsertInt(_, _)
InsertInt(s, x) ==
    IF s = <<>> THEN <<x>>
    ELSE IF x <= Head(s) THEN <<x>> \o s
    ELSE <<Head(s)>> \o InsertInt(Tail(s), x)

sortedMutant(lst) == lst

\* sorted(lst) of a list of integers
RECURSIVE sorted(_)
sorted(lst) ==
    IF lst = <<>> THEN <<>> ELSE InsertInt(sorted(Tail(lst)), Head(lst))

RECURSIVE InsertList(_, _)
InsertList(s, x) ==
    IF s = <<>> THEN <<x>>
    ELSE IF ListLeq(x, Head(s)) THEN <<x>> \o s
    ELSE <<Head(s)>> \o InsertList(Tail(s), x)

\* sorted(lsts) of a list of lists of integers
RECURSIVE sorted_lists_of(_)
sorted_lists_of(lsts) ==
    IF lsts = <<>> THEN <<>> ELSE InsertList(sorted_lists_of(Tail(lsts)), Head(lsts))

\* insertion of the item x into the list s of items ascending by key
RECURSIVE InsertItem(_, _)
InsertItem(s, x) ==
    IF s = <<>> THEN <<x>>
    ELSE IF x[1] < Head(s)[1] THEN <<x>> \o s
    ELSE <<Head(s)>> \o InsertItem(Tail(s), x)

\* sorted(items, key=lambda item: item[0]) of a list of (key, value) items
RECURSIVE sorted_items(_)
sorted_items(items) ==
    IF items = <<>> THEN <<>>
    ELSE InsertItem(sorted_items(SubSeq(items, 1, Len(items) - 1)), items[Len(items)])

\* version_dates.items(): the items of a dict in the order of their insertion.
\* The conversion fills version_dates in the iteration order of a set; the
\* model takes the descending order of the keys for it.
RECURSIVE dict_items(_)
dict_items(version_dates) ==
    IF DOMAIN version_dates = {} THEN <<>>
    ELSE LET m == CHOOSE x \in DOMAIN version_dates :
                     \A y \in DOMAIN version_dates : y <= x
         IN  <<(<<m, version_dates[m]>>)>>
             \o dict_items([k \in DOMAIN version_dates \ {m} |-> version_dates[k]])

\* json.dumps and get_str_weak_hash: the digest of the text of a value; the
\* model names a digest by the value digested
get_str_weak_hash(s) == s

-----------------------------------------------------------------------------
(* converter.Converter: the conversion of one repository *)

\* what a call inside the conversion did: raised is "none" when it returned.
\* The cache item is mutated in place, so it is part of the outcome of a call
\* that raised too.  clones, measured and solved record the calls made to
\* clone_repo, compute_code_sizes_at_revision and solve_hitting_set, asked the
\* versions passed to get_version_commit and get_version_date, hitting_set
\* the value of hitting_set_versions (empty before the solver returned).
Outcome(raised, items, revisions, cache, clones, measured, solved) ==
    [raised |-> raised, items |-> items, revisions |-> revisions, cache |-> cache,
     clones |-> clones, measured |-> measured, solved |-> solved, asked |-> {},
     hitting_set |-> <<>>]

\* filter_out_no_affected_versions
filter_out_no_affected_versions(osv_group) ==
    SelectSeq(osv_group, LAMBDA osv_item : osv_item.versions # <<>>)

filter_out_withdrawnMutant(osv_group) == osv_group

\* filter_out_withdrawn
filter_out_withdrawn(osv_group) ==
    SelectSeq(osv_group, LAMBDA osv_item : ~osv_item.withdrawn)

get_versions_info_with_cacheMutant(repo_url, versions, repo_dir, cache) ==
    LET missing == {v \in versions : v \notin DOMAIN cache.versions_info
                                      \/ cache.versions_info[v] = None}
        resolved == [v \in DOMAIN cache.versions_info \cup missing |->
                        IF v \notin missing
                        THEN cache.versions_info[v]
                        ELSE get_version_info(repo_url, v)]
        hit == [raised |-> "none", repo_dir |-> repo_dir,
                versions_info |-> [v \in versions |-> cache.versions_info[v]],
                cache |-> cache, clones |-> 0, asked |-> {}]
        miss(clone) ==
            IF clone # "ok"
            THEN [raised |-> clone, repo_dir |-> repo_dir, versions_info |-> <<>>,
                  cache |-> cache, clones |-> 1, asked |-> {}]
            ELSE [raised |-> "none", repo_dir |-> ClonedDir,
                  versions_info |-> [v \in versions |-> resolved[v]],
                  cache |-> [cache EXCEPT !.versions_info = resolved],
                  clones |-> 1, asked |-> missing]
    IN  IF missing = {} THEN {hit}
        ELSE IF repo_dir # None
        THEN {[miss("ok") EXCEPT !.clones = 0]}
        ELSE {miss(clone) : clone \in CloneOutcomes}

\* get_version_info_with_cache, for every version of `versions`: the cached
\* answer on a hit; on the first miss the repository is cloned, and each
\* missing version is resolved and recorded in the cache.
\* Outcomes: [raised, repo_dir, versions_info, cache, clones, asked]
get_versions_info_with_cache(repo_url, versions, repo_dir, cache) ==
    LET missing == versions \ DOMAIN cache.versions_info
        resolved == [v \in DOMAIN cache.versions_info \cup missing |->
                        IF v \in DOMAIN cache.versions_info
                        THEN cache.versions_info[v]
                        ELSE get_version_info(repo_url, v)]
        hit == [raised |-> "none", repo_dir |-> repo_dir,
                versions_info |-> [v \in versions |-> cache.versions_info[v]],
                cache |-> cache, clones |-> 0, asked |-> {}]
        miss(clone) ==
            IF clone # "ok"
            THEN [raised |-> clone, repo_dir |-> repo_dir, versions_info |-> <<>>,
                  cache |-> cache, clones |-> 1, asked |-> {}]
            ELSE [raised |-> "none", repo_dir |-> ClonedDir,
                  versions_info |-> [v \in versions |-> resolved[v]],
                  cache |-> [cache EXCEPT !.versions_info = resolved],
                  clones |-> 1, asked |-> missing]
    IN  IF missing = {} THEN {hit}
        ELSE IF repo_dir # None
        THEN {[miss("ok") EXCEPT !.clones = 0]}
        ELSE {miss(clone) : clone \in CloneOutcomes}

arguments_hash_ofMutant(lists, items) ==
    LET sorted_lists == sorted_lists_of([i \in DOMAIN lists |-> sorted(lists[i])])
        sorted_version_dates == sorted_items(items)
    IN  get_str_weak_hash(<<sorted_version_dates>>)

\* the cache key of solve_hitting_set_with_cache, of the lists and of the
\* items of version_dates in their insertion order
arguments_hash_of(lists, items) ==
    LET sorted_lists == sorted_lists_of([i \in DOMAIN lists |-> sorted(lists[i])])
        sorted_version_dates == sorted_items(items)
    IN  get_str_weak_hash(<<sorted_lists, sorted_version_dates>>)

arguments_hash(lists, version_dates) ==
    arguments_hash_of(lists, dict_items(version_dates))

solve_hitting_set_with_cacheMutant(lists, version_dates, cache) ==
    LET key == arguments_hash(lists, version_dates)
    IN  IF key \in DOMAIN cache.hitting_set_results
        THEN {[raised |-> "none", solution |-> cache.hitting_set_results[key],
               cache |-> cache, solved |-> 0]}
        ELSE {IF r.raised # "none"
              THEN [raised |-> r.raised, solution |-> <<>>, cache |-> cache, solved |-> 1]
              ELSE [raised |-> "none", solution |-> r.value, cache |-> cache, solved |-> 1]
              : r \in solve_hitting_set(lists, version_dates)}

\* solve_hitting_set_with_cache.  Outcomes: [raised, solution, cache, solved]
solve_hitting_set_with_cache(lists, version_dates, cache) ==
    LET key == arguments_hash(lists, version_dates)
    IN  IF key \in DOMAIN cache.hitting_set_results
        THEN {[raised |-> "none", solution |-> cache.hitting_set_results[key],
               cache |-> cache, solved |-> 0]}
        ELSE {IF r.raised # "none"
              THEN [raised |-> r.raised, solution |-> <<>>, cache |-> cache, solved |-> 1]
              ELSE [raised |-> "none", solution |-> r.value,
                    cache |-> [cache EXCEPT !.hitting_set_results =
                                  DictSet(@, key, r.value)],
                    solved |-> 1]
              : r \in solve_hitting_set(lists, version_dates)}

process_new_versionMutant(version, version_info, repo_url) ==
    LET sizes == compute_code_sizes_at_revision(repo_url, version_info[1])
    IN  [commit |-> version_info[1], repo_url |-> repo_url,
         date |-> fromtimestamp(version_info[2]),
         languages |-> sizes[1], size |-> sizes[1].Python]

\* process_new_version
process_new_version(version, version_info, repo_url) ==
    LET sizes == compute_code_sizes_at_revision(repo_url, version_info[1])
    IN  [commit |-> version_info[1], repo_url |-> repo_url,
         date |-> fromtimestamp(version_info[2]),
         languages |-> sizes[1], size |-> sizes[2]]

versions_to_repovul_revisions_with_cacheMutant(versions, versions_info, repo_url, repo_dir, existing_revisions) ==
    LET commit_to_existing_revision ==
            [c \in {} |-> CHOOSE r \in existing_revisions : r.commit = c]
        has_existing(v) ==
            /\ versions_info[v] # None
            /\ versions_info[v][1] \in DOMAIN commit_to_existing_revision
        known_versions == SelectSeq(versions, has_existing)
        version_to_existing_revision ==
            [v \in Range(known_versions) |->
                commit_to_existing_revision[versions_info[v][1]]]
        unknown_versions ==
            SelectSeq(versions, LAMBDA v : v \notin DOMAIN version_to_existing_revision)
        new_revisions ==
            [v \in Range(unknown_versions) |->
                process_new_version(v, versions_info[v], repo_url)]
        out(raised, dir, revs, order, clones, measured) ==
            [raised |-> raised, repo_dir |-> dir, revisions |-> revs, order |-> order,
             clones |-> clones, measured |-> measured]
        computed(clones) ==
            IF \E v \in Range(unknown_versions) : versions_info[v] = None
            THEN {out("ValueError", ClonedDir, <<>>, <<>>, clones, {})}
            ELSE {IF measure # "ok"
                  THEN out(measure, ClonedDir, <<>>, <<>>, clones, {})
                  ELSE out("none", ClonedDir,
                           [v \in Range(versions) |->
                               IF v \in DOMAIN new_revisions THEN new_revisions[v]
                               ELSE version_to_existing_revision[v]],
                           known_versions \o unknown_versions, clones,
                           {versions_info[v][1] : v \in Range(unknown_versions)})
                  : measure \in MeasureOutcomes}
    IN  IF \E v \in Range(versions) : v \notin DOMAIN versions_info
        THEN {out("KeyError", repo_dir, <<>>, <<>>, 0, {})}
        ELSE IF Cardinality(DOMAIN version_to_existing_revision) = Len(versions)
        THEN {out("none", repo_dir, version_to_existing_revision, known_versions, 0, {})}
        ELSE IF repo_dir # None THEN computed(0)
        ELSE UNION {IF clone # "ok"
                    THEN {out(clone, repo_dir, <<>>, <<>>, 1, {})}
                    ELSE computed(1)
                    : clone \in CloneOutcomes}

\* versions_to_repovul_revisions_with_cache.
\* Outcomes: [raised, repo_dir, revisions, order, clones, measured], revisions
\* being the dict version -> revision and order its keys in insertion order.
versions_to_repovul_revisions_with_cache(versions, versions_info, repo_url, repo_dir, existing_revisions) ==
    LET commit_to_existing_revision ==
            [c \in {r.commit : r \in existing_revisions} |->
                CHOOSE r \in existing_revisions : r.commit = c]
        has_existing(v) ==
            /\ versions_info[v] # None
            /\ versions_info[v][1] \in DOMAIN commit_to_existing_revision
        known_versions == SelectSeq(versions, has_existing)
        version_to_existing_revision ==
            [v \in Range(known_versions) |->
                commit_to_existing_revision[versions_info[v][1]]]
        unknown_versions ==
            SelectSeq(versions, LAMBDA v : v \notin DOMAIN version_to_existing_revision)
        new_revisions ==
            [v \in Range(unknown_versions) |->
                process_new_version(v, versions_info[v], repo_url)]
        out(raised, dir, revs, order, clones, measured) ==
            [raised |-> raised, repo_dir |-> dir, revisions |-> revs, order |-> order,
             clones |-> clones, measured |-> measured]
        computed(clones) ==
            IF \E v \in Range(unknown_versions) : versions_info[v] = None
            THEN {out("ValueError", ClonedDir, <<>>, <<>>, clones, {})}
            ELSE {IF measure # "ok"
                  THEN out(measure, ClonedDir, <<>>, <<>>, clones, {})
                  ELSE out("none", ClonedDir,
                           [v \in Range(versions) |->
                               IF v \in DOMAIN new_revisions THEN new_revisions[v]
                               ELSE version_to_existing_revision[v]],
                           known_versions \o unknown_versions, clones,
                           {versions_info[v][1] : v \in Range(unknown_versions)})
                  : measure \in MeasureOutcomes}
    IN  IF \E v \in Range(versions) : v \notin DOMAIN versions_info
        THEN {out("KeyError", repo_dir, <<>>, <<>>, 0, {})}
        ELSE IF Cardinality(DOMAIN version_to_existing_revision) = Len(versions)
        THEN {out("none", repo_dir, version_to_existing_revision, known_versions, 0, {})}
        ELSE IF repo_dir # None THEN computed(0)
        ELSE UNION {IF clone # "ok"
                    THEN {out(clone, repo_dir, <<>>, <<>>, 1, {})}
                    ELSE computed(1)
                    : clone \in CloneOutcomes}

\* the list comprehension [x for x in lst if x not in unknown]
Without(lst, unknown) == SelectSeq(lst, LAMBDA x : x \notin unknown)

repovul_items_ofMutant(osv_group, hitting_set_versions, repovul_revisions) ==
    [i \in DOMAIN osv_group |->
        [id |-> osv_group[i].id,
         repo_url |-> osv_group[i].repo_url,
         commits |-> [k \in DOMAIN hitting_set_versions |->
                         repovul_revisions[hitting_set_versions[k]].commit]]]

\* lines 310-328: one RepovulItem per OSV item of the group, its commits those
\* of the hitting-set versions the item is affected by
repovul_items_of(osv_group, hitting_set_versions, repovul_revisions) ==
    [i \in DOMAIN osv_group |->
        LET concerned_versions ==
                SelectSeq(hitting_set_versions,
                          LAMBDA version : version \in Range(osv_group[i].versions))
        IN  [id |-> osv_group[i].id,
             repo_url |-> osv_group[i].repo_url,
             commits |-> [k \in DOMAIN concerned_versions |->
                             repovul_revisions[concerned_versions[k]].commit]]]

AfterSolveMutant(repo_url, osv_group, versions_info, existing_revisions, repo_dir, clones, s) ==
    IF s.raised # "none"
    THEN {Outcome(s.raised, <<>>, <<>>, s.cache, clones, {}, s.solved)}
    ELSE {IF r.raised # "none"
          THEN [Outcome(r.raised, <<>>, <<>>, s.cache, clones + r.clones, {}, s.solved)
                   EXCEPT !.hitting_set = s.solution]
          ELSE [Outcome("none",
                        repovul_items_of(osv_group, s.solution, r.revisions),
                        [k \in DOMAIN r.order |-> r.revisions[r.order[k]]],
                        s.cache, clones + r.clones, r.measured, s.solved)
                   EXCEPT !.hitting_set = s.solution]
          : r \in versions_to_repovul_revisions_with_cache(
                      SortedSeqOfSet({v \in DOMAIN versions_info : versions_info[v] # None}),
                      versions_info, repo_url, repo_dir, existing_revisions)}

\* lines 301-328 of osv_group_to_repovul_group: after the solver
AfterSolve(repo_url, osv_group, versions_info, existing_revisions, repo_dir, clones, s) ==
    IF s.raised # "none"
    THEN {Outcome(s.raised, <<>>, <<>>, s.cache, clones, {}, s.solved)}
    ELSE {IF r.raised # "none"
          THEN [Outcome(r.raised, <<>>, <<>>, s.cache, clones + r.clones, {}, s.solved)
                   EXCEPT !.hitting_set = s.solution]
          ELSE [Outcome("none",
                        repovul_items_of(osv_group, s.solution, r.revisions),
                        [k \in DOMAIN r.order |-> r.revisions[r.order[k]]],
                        s.cache, clones + r.clones, r.measured, s.solved)
                   EXCEPT !.hitting_set = s.solution]
          : r \in versions_to_repovul_revisions_with_cache(
                      s.solution, versions_info, repo_url, repo_dir, existing_revisions)}

AfterVersionsInfoMutant(repo_url, osv_group, existing_revisions, g) ==
    IF g.raised # "none"
    THEN {Outcome(g.raised, <<>>, <<>>, g.cache, g.clones, {}, 0)}
    ELSE
    LET versions_info == g.versions_info
        unknown_versions == {v \in DOMAIN versions_info : versions_info[v] = None}
        all_versions == DOMAIN versions_info \ unknown_versions
        filtered == [i \in DOMAIN osv_group |-> Without(osv_group[i].versions, unknown_versions)]
        affected_versions_by_item ==
            IF unknown_versions = {} THEN [i \in DOMAIN osv_group |-> osv_group[i].versions]
            ELSE SelectSeq(filtered, LAMBDA lst : lst # <<>>)
        version_dates == [v \in all_versions |-> versions_info[v][2]]
    IN  IF FALSE
        THEN {Outcome("none", <<>>, <<>>, g.cache, g.clones, {}, 0)}
        ELSE UNION {AfterSolve(repo_url, osv_group, versions_info, existing_revisions,
                               g.repo_dir, g.clones, s)
                    : s \in solve_hitting_set_with_cache(
                                affected_versions_by_item, version_dates, g.cache)}

\* lines 269-300 of osv_group_to_repovul_group: after the versions' resolution
AfterVersionsInfo(repo_url, osv_group, existing_revisions, g) ==
    IF g.raised # "none"
    THEN {Outcome(g.raised, <<>>, <<>>, g.cache, g.clones, {}, 0)}
    ELSE
    LET versions_info == g.versions_info
        unknown_versions == {v \in DOMAIN versions_info : versions_info[v] = None}
        all_versions == DOMAIN versions_info \ unknown_versions
        filtered == [i \in DOMAIN osv_group |-> Without(osv_group[i].versions, unknown_versions)]
        affected_versions_by_item ==
            IF unknown_versions = {} THEN [i \in DOMAIN osv_group |-> osv_group[i].versions]
            ELSE SelectSeq(filtered, LAMBDA lst : lst # <<>>)
        version_dates == [v \in all_versions |-> versions_info[v][2]]
    IN  IF unknown_versions # {} /\ all_versions = {}
        THEN {Outcome("none", <<>>, <<>>, g.cache, g.clones, {}, 0)}
        ELSE UNION {AfterSolve(repo_url, osv_group, versions_info, existing_revisions,
                               g.repo_dir, g.clones, s)
                    : s \in solve_hitting_set_with_cache(
                                affected_versions_by_item, version_dates, g.cache)}

osv_group_to_repovul_groupMutant(repo_url, osv_items, cache, existing_revisions) ==
    LET osv_group == filter_out_withdrawn(filter_out_no_affected_versions(osv_items))
        all_versions == UNION {Range(osv_group[i].versions) : i \in DOMAIN osv_group}
    IN  IF osv_group = <<>>
        THEN {Outcome("none", <<>>, <<>>, cache, 0, {}, 0)}
        ELSE UNION {{[o EXCEPT !.asked = g.asked, !.clones = @ + 1]
                        : o \in AfterVersionsInfo(repo_url, osv_group, existing_revisions, g)}
                    : g \in get_versions_info_with_cache(repo_url, all_versions, ClonedDir, cache)}

\* osv_group_to_repovul_group: every outcome of converting the OSV items of one
\* repository, given its cache item and the revisions the store holds for it
osv_group_to_repovul_group(repo_url, osv_items, cache, existing_revisions) ==
    LET osv_group == filter_out_withdrawn(filter_out_no_affected_versions(osv_items))
        all_versions == UNION {Range(osv_group[i].versions) : i \in DOMAIN osv_group}
    IN  IF osv_group = <<>>
        THEN {Outcome("none", <<>>, <<>>, cache, 0, {}, 0)}
        ELSE UNION {{[o EXCEPT !.asked = g.asked]
                        : o \in AfterVersionsInfo(repo_url, osv_group, existing_revisions, g)}
                    : g \in get_versions_info_with_cache(repo_url, all_versions, None, cache)}

StatusOfMutant(raised) ==
    CASE raised = "none" -> "OK"
      [] raised = "RepoNotFoundError" -> "REPO_NOT_FOUND"
      [] raised = "GitRuntimeError" -> "REPO_NOT_FOUND"
      [] raised = "LinguistError" -> "OK"
      [] OTHER -> "none"

\* ConversionStatusCode of the exceptions convert_one_inner catches
StatusOf(raised) ==
    CASE raised = "none" -> "OK"
      [] raised = "RepoNotFoundError" -> "REPO_NOT_FOUND"
      [] raised = "GitRuntimeError" -> "GIT_RUNTIME_ERROR"
      [] raised = "LinguistError" -> "LINGUIST_ERROR"
      [] OTHER -> "none"

MappedExceptions == {"RepoNotFoundError", "GitRuntimeError", "LinguistError"}

convert_one_innerMutant(repo_url, osv_items, cache, existing_revisions) ==
    {[exception |-> IF o.raised \in MappedExceptions \cup {"none"} THEN "none" ELSE o.raised,
      raised |-> o.raised,
      status |-> StatusOf(o.raised),
      items |-> o.items, revisions |-> o.revisions,
      cache |-> IF o.raised = "none" THEN o.cache ELSE cache,
      clones |-> o.clones, measured |-> o.measured, solved |-> o.solved, asked |-> o.asked,
      hitting_set |-> o.hitting_set]
     : o \in osv_group_to_repovul_group(repo_url, osv_items, cache, existing_revisions)}

\* convert_one_inner: what the task of one repository ends with, either the
\* tuple (items, revisions, cache, status) or an exception it does not catch
convert_one_inner(repo_url, osv_items, cache, existing_revisions) ==
    {[exception |-> IF o.raised \in MappedExceptions \cup {"none"} THEN "none" ELSE o.raised,
      raised |-> o.raised,
      status |-> StatusOf(o.raised),
      items |-> o.items, revisions |-> o.revisions, cache |-> o.cache,
      clones |-> o.clones, measured |-> o.measured, solved |-> o.solved, asked |-> o.asked,
      hitting_set |-> o.hitting_set]
     : o \in osv_group_to_repovul_group(repo_url, osv_items, cache, existing_revisions)}
-----------------------------------------------------------------------------
(* The OSV entries of the repositories *)

Entry(id, repo_url, versions, withdrawn) ==
    [id |-> id, repo_url |-> repo_url, versions |-> versions, withdrawn |-> withdrawn]

\* the groups repository R1 may have
GroupsR1 == {
    <<Entry("E1", "R1", <<1>>, FALSE), Entry("E2", "R1", <<2>>, FALSE)>>,
    <<Entry("E1", "R1", <<1, 4>>, FALSE), Entry("E2", "R1", <<4>>, FALSE)>>,
    <<Entry("E1", "R1", <<4>>, FALSE)>>,
    <<Entry("E1", "R1", <<1>>, TRUE), Entry("E2", "R1", <<>>, FALSE)>>,
    <<Entry("E1", "R1", <<1, 2>>, FALSE), Entry("E2", "R1", <<2, 3>>, FALSE),
      Entry("E3", "R1", <<1>>, TRUE)>>,
    <<Entry("E1", "R1", <<2>>, FALSE), Entry("E2", "R1", <<3>>, FALSE)>> }

\* the groups repository R2 may have
GroupsR2 == {
    <<Entry("F1", "R2", <<1>>, FALSE)>>,
    <<Entry("F1", "R2", <<3, 1>>, FALSE), Entry("F2", "R2", <<3>>, FALSE)>> }

-----------------------------------------------------------------------------
(* RepovulRevision.to_dict and the constructor *)

\* datetime.isoformat()
isoformat(date) == [iso |-> date.timestamp]
fromisoformatMutant(text) == [timestamp |-> text.iso + 1]

\* the datetime the model's validation parses from an ISO 8601 text
fromisoformat(text) == [timestamp |-> text.iso]

\* RepovulRevision.to_dict
revision_to_dict(revision) ==
    [commit |-> revision.commit, repo_url |-> revision.repo_url,
     date |-> isoformat(revision.date), languages |-> revision.languages,
     size |-> revision.size]

\* RepovulRevision(**dict)
RepovulRevision(dict) ==
    [commit |-> dict.commit, repo_url |-> dict.repo_url,
     date |-> fromisoformat(dict.date), languages |-> dict.languages,
     size |-> dict.size]

-----------------------------------------------------------------------------
(* Converter.convert_list: the driver *)

NoResult ==
    [exception |-> "none", raised |-> "none", status |-> "none", items |-> <<>>, revisions |-> <<>>,
     cache |-> EmptyCacheItem, clones |-> 0, measured |-> {}, solved |-> 0, asked |-> {},
     hitting_set |-> <<>>]

NoSession == [items |-> {}, revisions |-> {}, new_items |-> <<>>, new_revisions |-> <<>>]

EmptyDb == [items |-> {}, revisions |-> {}]

\* Config.paths.data does not exist
NoData == <<>>

driver_vars == <<by_repo, db, disk_cache, self_cache, futures, pc, cur, session, runs,
                 ended, handled>>

\* no worker process is inside temp_directory
WorkerOff ==
    [pc |-> "off", cwd |-> "none", saved_cwd |-> "none", tmp_dir |-> "none", rmtree |-> "none"]

\* Cache.initialize(repo_url), for every url of repo_urls
initialize(c, repo_urls) ==
    [r \in DOMAIN c \cup repo_urls |-> IF r \in DOMAIN c THEN c[r] ELSE EmptyCacheItem]

prepare_argumentsMutant(repo_urls, c) ==
    [r \in repo_urls |->
        [osv_items |-> by_repo[r],
         cache |-> c[r],
         existing_revisions |-> db.revisions]]

\* prepare_arguments: per repository the OSV items, the cache item and the
\* revisions the store holds for it
prepare_arguments(repo_urls, c) ==
    [r \in repo_urls |->
        [osv_items |-> by_repo[r],
         cache |-> c[r],
         existing_revisions |-> {rev \in db.revisions : rev.repo_url = r}]]

Init ==
    /\ by_repo \in [RepoUrls -> GroupsR1 \cup GroupsR2]
    /\ by_repo["R1"] \in GroupsR1
    /\ by_repo["R2"] \in GroupsR2
    /\ db = EmptyDb
    /\ disk_cache = <<>>
    /\ self_cache = <<>>
    /\ futures = <<>>
    /\ pc = "idle"
    /\ cur = "none"
    /\ session = NoSession
    /\ runs = 0
    /\ ended = "none"
    /\ handled = [r \in RepoUrls |-> "none"]
    /\ s_lists = <<>> /\ s_dates = <<>> /\ s_out = Raise("not called") /\ s_pc = "off"
    /\ s_cache = EmptyCacheItem
    /\ data = NoData /\ exported = EmptyDb /\ worker = WorkerOff

\* the process ends: by returning, by an exception or by being killed
ProcessEnds ==
    /\ pc' = "idle"
    /\ cur' = "none"
    /\ self_cache' = <<>>
    /\ futures' = <<>>
    /\ session' = NoSession

\* Converter() and convert_list up to the submission of the tasks (lines 44-47, 108-119)
Start(repo_urls) ==
    /\ pc = "idle"
    /\ runs < MaxRuns
    /\ runs' = runs + 1
    /\ self_cache' = initialize(disk_cache, repo_urls)
    /\ futures' = [r \in repo_urls |->
                      [state |-> "pending",
                       args |-> prepare_arguments(repo_urls, self_cache')[r],
                       result |-> NoResult]]
    /\ pc' = "as_completed"
    /\ ended' = "none"
    /\ UNCHANGED <<by_repo, db, disk_cache, cur, session, handled, solver_vars, export_vars, worker>>

\* a worker process runs convert_one_inner on the arguments of one task
Task(r) ==
    /\ pc # "idle"
    /\ r \in DOMAIN futures
    /\ futures[r].state = "pending"
    /\ \E res \in convert_one_inner(r, futures[r].args.osv_items, futures[r].args.cache,
                                    futures[r].args.existing_revisions) :
          futures' = [futures EXCEPT ![r].state = "finished", ![r].result = res]
    /\ UNCHANGED <<by_repo, db, disk_cache, self_cache, pc, cur, session, runs, ended, handled,
                   solver_vars, export_vars, worker>>

TakeResultMutant(r) ==
    /\ pc = "as_completed"
    /\ r \in DOMAIN futures
    /\ futures[r].state = "finished"
    /\ futures[r].result.exception = "none"
    /\ IF futures[r].result.status # "OK"
       THEN /\ futures' = [futures EXCEPT ![r].state = "taken"]
            /\ UNCHANGED <<cur, session, pc>>
       ELSE /\ cur' = r
            /\ session' = [NoSession EXCEPT !.items = db.items, !.revisions = db.revisions]
            /\ pc' = "delete_items"
            /\ UNCHANGED futures
    /\ UNCHANGED <<by_repo, db, disk_cache, self_cache, runs, ended, handled,
                   solver_vars, export_vars, worker>>

\* as_completed yields a finished future whose result is a tuple (lines 122-126):
\* the session of the repository's write opens
TakeResult(r) ==
    /\ pc = "as_completed"
    /\ r \in DOMAIN futures
    /\ futures[r].state = "finished"
    /\ futures[r].result.exception = "none"
    /\ cur' = r
    /\ session' = [NoSession EXCEPT !.items = db.items, !.revisions = db.revisions]
    /\ pc' = "delete_items"
    /\ UNCHANGED <<by_repo, db, disk_cache, self_cache, futures, runs, ended, handled,
                   solver_vars, export_vars, worker>>

TaskExceptionMutant(r) ==
    /\ pc = "as_completed"
    /\ r \in DOMAIN futures
    /\ futures[r].state = "finished"
    /\ futures[r].result.exception # "none"
    /\ futures' = [futures EXCEPT ![r].state = "taken"]
    /\ UNCHANGED <<by_repo, db, disk_cache, self_cache, pc, cur, session, runs, ended, handled,
                   solver_vars, export_vars, worker>>

\* as_completed yields a future that holds an exception (lines 127-129, 158-162):
\* the futures are cancelled and the exception leaves convert_list
TaskException(r) ==
    /\ pc = "as_completed"
    /\ r \in DOMAIN futures
    /\ futures[r].state = "finished"
    /\ futures[r].result.exception # "none"
    /\ ProcessEnds
    /\ ended' = futures[r].result.exception
    /\ UNCHANGED <<by_repo, db, disk_cache, runs, handled, solver_vars, export_vars, worker>>

\* session.exec(delete(RepovulItem).where(repo_url == ...)) (lines 133-134)
exec_delete_itemsMutant(d, s, repo_url) ==
    <<[d EXCEPT !.items = {i \in d.items : i.repo_url # repo_url}],
      [s EXCEPT !.items = {i \in s.items : i.repo_url # repo_url}]>>

exec_delete_itemsEveryMutant(d, s, repo_url) ==
    <<d, [s EXCEPT !.items = {}]>>

exec_delete_items(d, s, repo_url) ==
    <<d, [s EXCEPT !.items = {i \in s.items : i.repo_url # repo_url}]>>

DeleteItems ==
    /\ pc = "delete_items"
    /\ db' = exec_delete_items(db, session, cur)[1]
    /\ session' = exec_delete_items(db, session, cur)[2]
    /\ pc' = "delete_revisions"
    /\ UNCHANGED <<by_repo, disk_cache, self_cache, futures, cur, runs, ended, handled,
                   solver_vars, export_vars, worker>>

exec_delete_revisionsMutant(s, repo_url) == [s EXCEPT !.revisions = {}]

\* session.exec(delete(RepovulRevision).where(repo_url == ...)) (lines 135-138)
exec_delete_revisions(s, repo_url) ==
    [s EXCEPT !.revisions = {rev \in s.revisions : rev.repo_url # repo_url}]

DeleteRevisions ==
    /\ pc = "delete_revisions"
    /\ session' = exec_delete_revisions(session, cur)
    /\ pc' = "add_items"
    /\ UNCHANGED <<by_repo, db, disk_cache, self_cache, futures, cur, runs, ended, handled,
                   solver_vars, export_vars, worker>>

\* session.add_all(repovul_items) (line 139)
AddItems ==
    /\ pc = "add_items"
    /\ session' = [session EXCEPT !.new_items = futures[cur].result.items]
    /\ pc' = "add_revisions"
    /\ UNCHANGED <<by_repo, db, disk_cache, self_cache, futures, cur, runs, ended, handled,
                   solver_vars, export_vars, worker>>

\* session.add_all([RepovulRevision(**revision.to_dict()) ...]) (lines 142-147)
AddRevisions ==
    /\ pc = "add_revisions"
    /\ session' = [session EXCEPT !.new_revisions =
                      [k \in DOMAIN futures[cur].result.revisions |->
                          RepovulRevision(revision_to_dict(futures[cur].result.revisions[k]))]]
    /\ pc' = "commit"
    /\ UNCHANGED <<by_repo, db, disk_cache, self_cache, futures, cur, runs, ended, handled,
                   solver_vars, export_vars, worker>>

\* the INSERTs of the flush violate no primary key: RepovulItem.id and
\* RepovulRevision.(commit, repo_url)
FlushOk(s) ==
    /\ \A i, j \in DOMAIN s.new_items : s.new_items[i].id = s.new_items[j].id => i = j
    /\ \A i \in DOMAIN s.new_items : \A row \in s.items : row.id # s.new_items[i].id
    /\ \A i, j \in DOMAIN s.new_revisions :
          (/\ s.new_revisions[i].commit = s.new_revisions[j].commit
           /\ s.new_revisions[i].repo_url = s.new_revisions[j].repo_url) => i = j
    /\ \A i \in DOMAIN s.new_revisions : \A row \in s.revisions :
          ~(/\ row.commit = s.new_revisions[i].commit
            /\ row.repo_url = s.new_revisions[i].repo_url)

committedMutant(s) ==
    [items |-> Range(s.new_items), revisions |-> Range(s.new_revisions)]

\* the tables after session.commit()
committed(s) ==
    [items |-> s.items \cup Range(s.new_items),
     revisions |-> s.revisions \cup Range(s.new_revisions)]

\* session.commit() (line 148)
Commit ==
    /\ pc = "commit"
    /\ FlushOk(session)
    /\ db' = committed(session)
    /\ session' = NoSession
    /\ pc' = "cache"
    /\ UNCHANGED <<by_repo, disk_cache, self_cache, futures, cur, runs, ended, handled,
                   solver_vars, export_vars, worker>>

\* session.commit() raises IntegrityError: the session rolls back and the
\* exception leaves convert_list (lines 148, 158-162)
CommitFails ==
    /\ pc = "commit"
    /\ ~FlushOk(session)
    /\ ProcessEnds
    /\ ended' = "IntegrityError"
    /\ UNCHANGED <<by_repo, db, disk_cache, runs, handled, solver_vars, export_vars, worker>>

\* Cache.write()
cache_write(c) == c

CacheUpdateMutant ==
    /\ pc = "cache"
    /\ self_cache' = [self_cache EXCEPT ![cur] = futures[cur].result.cache]
    /\ disk_cache' = cache_write(self_cache')
    /\ futures' = [futures EXCEPT ![cur].state = "taken"]
    /\ pc' = "as_completed"
    /\ cur' = "none"
    /\ handled' = [handled EXCEPT ![cur] = futures[cur].result.status]
    /\ UNCHANGED <<by_repo, db, session, runs, ended, solver_vars, export_vars, worker>>

\* lines 149-152: the cache item is replaced and the cache written when the
\* returned item differs
CacheUpdate ==
    /\ pc = "cache"
    /\ IF futures[cur].result.cache # self_cache[cur]
       THEN /\ self_cache' = [self_cache EXCEPT ![cur] = futures[cur].result.cache]
            /\ disk_cache' = cache_write(self_cache')
       ELSE UNCHANGED <<self_cache, disk_cache>>
    /\ futures' = [futures EXCEPT ![cur].state = "taken"]
    /\ pc' = "as_completed"
    /\ cur' = "none"
    /\ handled' = [handled EXCEPT ![cur] = futures[cur].result.status]
    /\ UNCHANGED <<by_repo, db, session, runs, ended, solver_vars, export_vars, worker>>

\* every future was handled: display_statistics, convert_list returns (line 163)
Finish ==
    /\ pc = "as_completed"
    /\ \A r \in DOMAIN futures : futures[r].state = "taken"
    /\ ProcessEnds
    /\ ended' = "returned"
    /\ UNCHANGED <<by_repo, db, disk_cache, runs, handled, solver_vars, export_vars, worker>>

\* the process is killed
Crash ==
    /\ pc # "idle"
    /\ ProcessEnds
    /\ ended' = "killed"
    /\ UNCHANGED <<by_repo, db, disk_cache, runs, handled, solver_vars, export_vars, worker>>

Next ==
    \/ \E repo_urls \in (SUBSET RepoUrls) \ {{}} : Start(repo_urls)
    \/ \E r \in RepoUrls : Task(r)
    \/ \E r \in RepoUrls : TakeResult(r)
    \/ \E r \in RepoUrls : TaskException(r)
    \/ DeleteItems
    \/ DeleteRevisions
    \/ AddItems
    \/ AddRevisions
    \/ Commit
    \/ CommitFails
    \/ CacheUpdate
    \/ Finish
    \/ Crash

Spec == Init /\ [][Next]_vars
-----------------------------------------------------------------------------
(* The conversion harness: convert_one_inner applied to one repository, and  *)
(* applied again, after the OSV entries of the repository changed, to the    *)
(* cache item and the revisions the conversion before returned               *)

Groups(r) == IF r = "R1" THEN GroupsR1 ELSE GroupsR2

\* the rows the revisions of a task's result are inserted as (lines 142-147)
InsertedRevisions(r) ==
    {RepovulRevision(revision_to_dict(rev)) : rev \in Range(futures[r].result.revisions)}

InitConv ==
    /\ by_repo = <<>> /\ db = EmptyDb /\ disk_cache = <<>> /\ self_cache = <<>>
    /\ pc = "convert" /\ cur = "none" /\ session = NoSession
    /\ ended = "none" /\ handled = <<>>
    /\ runs = 1
    /\ \E r \in RepoUrls : \E g \in Groups(r) :
          futures = [x \in {r} |->
                        [state |-> "pending",
                         args |-> [osv_items |-> g, cache |-> EmptyCacheItem,
                                   existing_revisions |-> {}],
                         result |-> NoResult]]
    /\ s_lists = <<>> /\ s_dates = <<>> /\ s_out = Raise("not called") /\ s_pc = "off"
    /\ s_cache = EmptyCacheItem
    /\ data = NoData /\ exported = EmptyDb /\ worker = WorkerOff

\* the next conversion of the repository: its arguments are the OSV entries
\* of that time, and the cache item and the revisions the handling of the
\* result left (those of the result; those before, when the task raised)
Reconvert(r) ==
    /\ pc = "convert"
    /\ r \in DOMAIN futures
    /\ futures[r].state = "finished"
    /\ runs < MaxRuns
    /\ runs' = runs + 1
    /\ \E g \in Groups(r) :
          futures' = [futures EXCEPT ![r] =
                        [state |-> "pending",
                         args |-> IF futures[r].result.exception = "none"
                                  THEN [osv_items |-> g,
                                        cache |-> futures[r].result.cache,
                                        existing_revisions |-> InsertedRevisions(r)]
                                  ELSE [futures[r].args EXCEPT !.osv_items = g],
                         result |-> NoResult]]
    /\ UNCHANGED <<by_repo, db, disk_cache, self_cache, pc, cur, session, ended, handled,
                   solver_vars, export_vars, worker>>

NextConv ==
    \/ \E r \in RepoUrls : Task(r)
    \/ \E r \in RepoUrls : Reconvert(r)

SpecConv == InitConv /\ [][NextConv]_vars

-----------------------------------------------------------------------------
(* The driver after the OSV dataset changed: convert_list run on a store and *)
(* a cache file that an earlier run, on earlier OSV entries, has left        *)

\* the OSV entries of a repository at the time of the earlier run
EarlierGroups(r) ==
    IF r = "R1"
    THEN {<<Entry("E1", "R1", <<1>>, FALSE), Entry("E2", "R1", <<2>>, FALSE)>>,
          <<Entry("E1", "R1", <<1, 2>>, FALSE), Entry("E2", "R1", <<2, 3>>, FALSE)>>}
    ELSE {<<Entry("F1", "R2", <<1>>, FALSE)>>}

\* the results of the earlier run's tasks that the driver committed with
\* status OK
EarlierResults(r) ==
    {res \in UNION {convert_one_inner(r, g, EmptyCacheItem, {}) : g \in EarlierGroups(r)} :
        /\ res.exception = "none"
        /\ res.status = "OK"
        /\ \A i, j \in DOMAIN res.revisions :
              res.revisions[i].commit = res.revisions[j].commit => i = j}

InitUpdate ==
    /\ by_repo \in [RepoUrls -> GroupsR1 \cup GroupsR2]
    /\ by_repo["R1"] \in GroupsR1
    /\ by_repo["R2"] \in GroupsR2
    /\ \E earlier \in [RepoUrls -> UNION {EarlierResults(r) : r \in RepoUrls}] :
          /\ \A r \in RepoUrls : earlier[r] \in EarlierResults(r)
          /\ db = [items |-> UNION {Range(earlier[r].items) : r \in RepoUrls},
                   revisions |-> UNION {{RepovulRevision(revision_to_dict(rev))
                                            : rev \in Range(earlier[r].revisions)}
                                        : r \in RepoUrls}]
          /\ disk_cache = [r \in RepoUrls |-> earlier[r].cache]
    /\ self_cache = <<>>
    /\ futures = <<>>
    /\ pc = "idle"
    /\ cur = "none"
    /\ session = NoSession
    /\ runs = MaxRuns - 1
    /\ ended = "returned"
    /\ handled = [r \in RepoUrls |-> "OK"]
    /\ s_lists = <<>> /\ s_dates = <<>> /\ s_out = Raise("not called") /\ s_pc = "off"
    /\ s_cache = EmptyCacheItem
    /\ data = NoData /\ exported = EmptyDb /\ worker = WorkerOff

SpecUpdate == InitUpdate /\ [][Next]_vars

-----------------------------------------------------------------------------
(* The worker harness: convert_one_inner in the steps of util.temp_directory *)

\* the directories the worker process may be in when the task starts
Cwds == {"cwd1", "cwd2"}

\* shutil.rmtree(tmp_dir) removes the directory or raises
RmtreeOutcomes == {"ok", "raises"}

InitTemp ==
    /\ by_repo = <<>> /\ db = EmptyDb /\ disk_cache = <<>> /\ self_cache = <<>>
    /\ pc = "worker" /\ cur = "none" /\ session = NoSession
    /\ ended = "none" /\ handled = <<>>
    /\ runs = 1
    /\ \E r \in RepoUrls : \E g \in Groups(r) :
          futures = [x \in {r} |->
                        [state |-> "pending",
                         args |-> [osv_items |-> g, cache |-> EmptyCacheItem,
                                   existing_revisions |-> {}],
                         result |-> NoResult]]
    /\ s_lists = <<>> /\ s_dates = <<>> /\ s_out = Raise("not called") /\ s_pc = "off"
    /\ s_cache = EmptyCacheItem
    /\ data = NoData /\ exported = EmptyDb
    /\ \E d \in Cwds : worker = [WorkerOff EXCEPT !.pc = "start", !.cwd = d]

\* saved_cwd = os.getcwd(); tmp_dir = mkdtemp(...) (util.py lines 82-83)
Mkdtemp ==
    /\ worker.pc = "start"
    /\ worker' = [worker EXCEPT !.saved_cwd = worker.cwd, !.tmp_dir = "exists",
                                !.pc = "chdir"]
    /\ UNCHANGED <<driver_vars, solver_vars, export_vars>>

\* os.chdir(tmp_dir) (line 85)
ChdirTmp ==
    /\ worker.pc = "chdir"
    /\ worker' = [worker EXCEPT !.cwd = "tmp_dir", !.pc = "body"]
    /\ UNCHANGED <<driver_vars, solver_vars, export_vars>>

\* the body of the with statement (converter.py lines 69-75): the conversion
\* returns or raises; the task's result is what convert_one_inner then ends with
WithBody(r) ==
    /\ worker.pc = "body"
    /\ r \in DOMAIN futures
    /\ futures[r].state = "pending"
    /\ \E res \in convert_one_inner(r, futures[r].args.osv_items, futures[r].args.cache,
                                    futures[r].args.existing_revisions) :
          futures' = [futures EXCEPT ![r].result = res]
    /\ worker' = [worker EXCEPT !.pc = "rmtree"]
    /\ UNCHANGED <<by_repo, db, disk_cache, self_cache, pc, cur, session, runs, ended, handled,
                   solver_vars, export_vars>>

RmtreeMutant(r) ==
    /\ worker.pc = "rmtree"
    /\ r \in DOMAIN futures
    /\ IF futures[r].result.raised # "none"
       THEN worker' = [worker EXCEPT !.pc = "exited"]
       ELSE \E outcome \in RmtreeOutcomes :
               worker' = [worker EXCEPT !.rmtree = outcome,
                                        !.tmp_dir = IF outcome = "ok" THEN "deleted" ELSE @,
                                        !.pc = "chdir_back"]
    /\ futures' = IF futures[r].result.raised # "none"
                  THEN [futures EXCEPT ![r].state = "finished"]
                  ELSE futures
    /\ UNCHANGED <<by_repo, db, disk_cache, self_cache, pc, cur, session, runs, ended, handled,
                   solver_vars, export_vars>>

\* finally: shutil.rmtree(tmp_dir); an exception of it is logged (lines 87-91)
Rmtree(r) ==
    /\ worker.pc = "rmtree"
    /\ r \in DOMAIN futures
    /\ \E outcome \in RmtreeOutcomes :
          worker' = [worker EXCEPT !.rmtree = outcome,
                                   !.tmp_dir = IF outcome = "ok" THEN "deleted" ELSE @,
                                   !.pc = "chdir_back"]
    /\ UNCHANGED <<driver_vars, solver_vars, export_vars>>

\* finally: os.chdir(saved_cwd) (lines 92-93); then convert_one_inner returns
\* its tuple or the exception leaves it (converter.py lines 76-84)
ChdirBack(r) ==
    /\ worker.pc = "chdir_back"
    /\ r \in DOMAIN futures
    /\ worker' = [worker EXCEPT !.cwd = worker.saved_cwd, !.pc = "exited"]
    /\ futures' = [futures EXCEPT ![r].state = "finished"]
    /\ UNCHANGED <<by_repo, db, disk_cache, self_cache, pc, cur, session, runs, ended, handled,
                   solver_vars, export_vars>>

NextTemp ==
    \/ Mkdtemp
    \/ ChdirTmp
    \/ \E r \in RepoUrls : WithBody(r)
    \/ \E r \in RepoUrls : Rmtree(r)
    \/ \E r \in RepoUrls : ChdirBack(r)

SpecTemp == InitTemp /\ [][NextTemp]_vars

-----------------------------------------------------------------------------
(* json_export and json_import (__main__.py), RepovulItem.to_dict and        *)
(* from_file (models/repovul.py): the store written to the flat-file tree,   *)
(* removed, and read back                                                    *)

\* the strings of cwes and commits, in the order Python compares them
StringOrder == <<"CWE-1", "CWE-2", "c1", "c2">>

str_rank(x) == CHOOSE i \in DOMAIN StringOrder : StringOrder[i] = x

\* sorted(lst) of a list of strings
sorted_strings(lst) ==
    LET ranks == sorted([i \in DOMAIN lst |-> str_rank(lst[i])])
    IN  [i \in DOMAIN ranks |-> StringOrder[ranks[i]]]

\* repo_url_to_name: the directory name of a repository
repo_url_to_name(repo_url) == <<"name of", repo_url>>

item_to_dictMutant(item) ==
    LET keys == {"id", "published", "modified", "details", "repo_url", "cwes", "commits"}
                \cup (IF item.severity # None THEN {"severity"} ELSE {})
    IN  [k \in keys |->
            CASE k = "id" -> item.id
              [] k = "published" -> isoformat(item.published)
              [] k = "modified" -> isoformat(item.modified)
              [] k = "details" -> item.details
              [] k = "severity" -> item.severity
              [] k = "repo_url" -> item.repo_url
              [] k = "cwes" -> sorted_strings(item.cwes)
              [] k = "commits" -> sorted_strings(item.commits)]

\* RepovulItem.to_dict: summary and severity are keys only when not None,
\* cwes and commits are sorted
item_to_dict(item) ==
    LET keys == {"id", "published", "modified", "details", "repo_url", "cwes", "commits"}
                \cup (IF item.summary # None THEN {"summary"} ELSE {})
                \cup (IF item.severity # None THEN {"severity"} ELSE {})
    IN  [k \in keys |->
            CASE k = "id" -> item.id
              [] k = "published" -> isoformat(item.published)
              [] k = "modified" -> isoformat(item.modified)
              [] k = "details" -> item.details
              [] k = "summary" -> item.summary
              [] k = "severity" -> item.severity
              [] k = "repo_url" -> item.repo_url
              [] k = "cwes" -> sorted_strings(item.cwes)
              [] k = "commits" -> sorted_strings(item.commits)]

\* RepovulItem.from_file: the item validated from the JSON object of a file;
\* an optional field that is no key of the object is None
item_from_file(dict) ==
    [id |-> dict["id"],
     published |-> fromisoformat(dict["published"]),
     modified |-> fromisoformat(dict["modified"]),
     details |-> dict["details"],
     summary |-> IF "summary" \in DOMAIN dict THEN dict["summary"] ELSE None,
     severity |-> IF "severity" \in DOMAIN dict THEN dict["severity"] ELSE None,
     repo_url |-> dict["repo_url"],
     cwes |-> dict["cwes"],
     commits |-> dict["commits"]]

\* RepovulRevision.from_file
revision_from_file(dict) == RepovulRevision(dict)

\* item.log() and revision.log() for every row: one file per row, at
\* <repo_name>/<id>.json and <repo_name>/<commit>.json
json_export(d) ==
    [vulns |->
        [path \in {<<repo_url_to_name(i.repo_url), i.id>> : i \in d.items} |->
            item_to_dict(CHOOSE i \in d.items :
                             <<repo_url_to_name(i.repo_url), i.id>> = path)],
     revisions |->
        [path \in {<<repo_url_to_name(rev.repo_url), rev.commit>> : rev \in d.revisions} |->
            revision_to_dict(CHOOSE rev \in d.revisions :
                                 <<repo_url_to_name(rev.repo_url), rev.commit>> = path)]]

\* the tables json_import commits: one row per file of the tree
json_import(tree) ==
    [items |-> {item_from_file(tree.vulns[path]) : path \in DOMAIN tree.vulns},
     revisions |-> {revision_from_file(tree.revisions[path]) : path \in DOMAIN tree.revisions}]

\* Config.paths.db does not exist
NoDb == <<>>

\* the rows a vulnerability table may hold for an id
ItemValues(id, repo_url) ==
    {[id |-> id, published |-> fromtimestamp(1), modified |-> fromtimestamp(MaxDate),
      details |-> "details", summary |-> summary, severity |-> severity,
      repo_url |-> repo_url, cwes |-> <<"CWE-2", "CWE-1">>, commits |-> commits]
     : summary \in {None, <<"summary">>},
       severity \in {None, <<"CVSS_V3">>},
       commits \in {<<>>, <<"c2", "c1">>}}

\* the rows the revision table may hold
RevisionValues ==
    {process_new_version(1, get_version_info(r, 1), r) : r \in RepoUrls}
    \cup {process_new_version(2, get_version_info("R1", 2), "R1")}

InitExport ==
    /\ by_repo = <<>> /\ disk_cache = <<>> /\ self_cache = <<>>
    /\ futures = <<>> /\ cur = "none" /\ session = NoSession /\ runs = 0
    /\ ended = "none" /\ handled = <<>>
    /\ pc = "store"
    /\ \E items1 \in {S \in SUBSET ItemValues("E1", "R1") : Cardinality(S) <= 1} :
       \E items2 \in {S \in SUBSET ItemValues("F1", "R2") : Cardinality(S) <= 1} :
       \E revisions \in SUBSET RevisionValues :
          db = [items |-> items1 \cup items2, revisions |-> revisions]
    /\ data = NoData
    /\ exported = EmptyDb
    /\ worker = WorkerOff
    /\ s_lists = <<>> /\ s_dates = <<>> /\ s_out = Raise("not called") /\ s_pc = "off"
    /\ s_cache = EmptyCacheItem

\* json_export: refuses when the data directory exists
JsonExport ==
    /\ pc = "store"
    /\ data = NoData
    /\ data' = json_export(db)
    /\ exported' = db
    /\ pc' = "exported"
    /\ UNCHANGED <<by_repo, db, disk_cache, self_cache, futures, cur, session, runs,
                   ended, handled, solver_vars, worker>>

\* the database directory is removed
Wipe ==
    /\ pc = "exported"
    /\ db' = NoDb
    /\ pc' = "wiped"
    /\ UNCHANGED <<by_repo, disk_cache, self_cache, futures, cur, session, runs,
                   ended, handled, solver_vars, export_vars, worker>>

\* json_import: refuses when the database directory exists
JsonImport ==
    /\ pc = "wiped"
    /\ db = NoDb
    /\ db' = json_import(data)
    /\ pc' = "imported"
    /\ UNCHANGED <<by_repo, disk_cache, self_cache, futures, cur, session, runs,
                   ended, handled, solver_vars, export_vars, worker>>

NextExport ==
    \/ JsonExport
    \/ Wipe
    \/ JsonImport

SpecExport == InitExport /\ [][NextExport]_vars

-----------------------------------------------------------------------------
(* The solver harness: solve_hitting_set applied to bounded inputs *)

\* the lists of the harness: 1..3 non-empty lists over SolverVersions
SolverListValues == {SortedSeqOfSet(S) : S \in (SUBSET SolverVersions) \ {{}}}

SolverInputs ==
    UNION {[1..n -> SolverListValues] : n \in SolverListCounts}

\* the driver is not part of a harness
DriverOff ==
    /\ by_repo = <<>> /\ db = EmptyDb /\ disk_cache = <<>> /\ self_cache = <<>>
    /\ futures = <<>> /\ pc = "off" /\ cur = "none" /\ session = NoSession /\ runs = 0
    /\ ended = "none" /\ handled = <<>>

InitSolve ==
    /\ DriverOff
    /\ s_cache = EmptyCacheItem
    /\ data = NoData /\ exported = EmptyDb /\ worker = WorkerOff
    /\ s_lists \in SolverInputs
    /\ s_dates \in [SolverVersions -> 0..MaxDate]
    /\ s_out = Raise("not called")
    /\ s_pc = "ready"

SolveCall ==
    /\ s_pc = "ready"
    /\ s_out' \in solve_hitting_set(s_lists, s_dates)
    /\ s_pc' = "done"
    /\ UNCHANGED <<s_lists, s_dates, s_cache, driver_vars, export_vars, worker>>

NextSolve == SolveCall

SpecSolve == InitSolve /\ [][NextSolve]_vars

-----------------------------------------------------------------------------
(* The key harness: the cache key of solve_hitting_set_with_cache computed  *)
(* for bounded inputs and for a rearrangement of them                       *)

\* every rearrangement of the list s
Reorderings(s) ==
    {[i \in DOMAIN s |-> s[p[i]]] : p \in Orderings(DOMAIN s)}

\* the lists of `lists` in their order, each rearranged inside
RECURSIVE RearrangedInside(_)
RearrangedInside(lists) ==
    IF lists = <<>> THEN {<<>>}
    ELSE {<<a>> \o rest : a \in Reorderings(Head(lists)),
                          rest \in RearrangedInside(Tail(lists))}

\* every rearrangement of a list of lists: of the lists and inside each list
Rearrangements(lists) ==
    UNION {RearrangedInside(l) : l \in Reorderings(lists)}

\* the lists of the key harness: 1..2 lists, their elements in any order
KeyListValues == UNION {Orderings(S) : S \in (SUBSET SolverVersions) \ {{}}}

KeyInputs == UNION {[1..n -> KeyListValues] : n \in 1..2}

InitKey ==
    /\ DriverOff
    /\ s_lists \in KeyInputs
    /\ s_dates \in [SolverVersions -> {0, MaxDate}]
    /\ s_out = Raise("not called")
    /\ s_pc = "ready"
    /\ s_cache = EmptyCacheItem
    /\ data = NoData /\ exported = EmptyDb /\ worker = WorkerOff

\* lines 461-463 applied to the inputs and to a rearrangement of them
KeyCall ==
    /\ s_pc = "ready"
    /\ \E p_items \in Reorderings(dict_items(s_dates)) :
       \E p_lists \in Rearrangements(s_lists) :
          s_out' = [key |-> arguments_hash_of(s_lists, dict_items(s_dates)),
                    permuted_key |-> arguments_hash_of(p_lists, p_items),
                    lists_differ |-> p_lists # s_lists,
                    items_differ |-> p_items # dict_items(s_dates)]
    /\ s_pc' = "done"
    /\ UNCHANGED <<s_lists, s_dates, s_cache, driver_vars, export_vars, worker>>

NextKey == KeyCall

SpecKey == InitKey /\ [][NextKey]_vars

-----------------------------------------------------------------------------
(* The cache harness: solve_hitting_set_with_cache called twice with the    *)
(* same lists and dates, the second time with the cache item of the first   *)

\* a cache item that holds the solution of another problem
OtherSolutionCache ==
    [EmptyCacheItem EXCEPT !.hitting_set_results =
        DictSet(<<>>, arguments_hash(<<(<<1>>)>>, [v \in SolverVersions |-> 0]), <<1>>)]

InitCache ==
    /\ DriverOff
    /\ s_lists \in SolverInputs
    /\ s_dates \in [SolverVersions -> {0, MaxDate}]
    /\ s_cache \in {EmptyCacheItem, OtherSolutionCache}
    /\ s_out = <<>>
    /\ s_pc = "ready"
    /\ data = NoData /\ exported = EmptyDb /\ worker = WorkerOff

\* a call of solve_hitting_set_with_cache: the first with s_cache, the second
\* with the cache item the first call left
CachedCall ==
    /\ s_pc \in {"ready", "once"}
    /\ \E o \in solve_hitting_set_with_cache(
                    s_lists, s_dates,
                    IF s_out = <<>> THEN s_cache ELSE s_out[Len(s_out)].cache) :
          s_out' = Append(s_out, o)
    /\ s_pc' = IF s_pc = "ready" THEN "once" ELSE "twice"
    /\ UNCHANGED <<s_lists, s_dates, s_cache, driver_vars, export_vars, worker>>

NextCache == CachedCall

SpecCache == InitCache /\ [][NextCache]_vars

-----------------------------------------------------------------------------
(* The reuse harness: solve_hitting_set_with_cache called three times on    *)
(* one cache item, each time with lists and dates of its own                *)

\* the version strings of the reuse harness
ReuseVersions == {1, 2}

\* 1..2 lists, their elements in any order
ReuseLists ==
    LET values == UNION {Orderings(S) : S \in (SUBSET ReuseVersions) \ {{}}}
    IN  UNION {[1..n -> values] : n \in 1..2}

\* all versions of one date, or each version of a date of its own
ReuseDates ==
    {[v \in ReuseVersions |-> 0], [v \in ReuseVersions |-> v * TicksPerSecond]}

InitReuse ==
    /\ DriverOff
    /\ s_lists = <<>>
    /\ s_dates = <<>>
    /\ s_cache = EmptyCacheItem
    /\ s_out = <<>>
    /\ s_pc = "ready"
    /\ data = NoData /\ exported = EmptyDb /\ worker = WorkerOff

\* a call of solve_hitting_set_with_cache with the cache item the earlier
\* calls left; s_out lists the calls made
ReuseCall ==
    /\ s_pc \in {"ready", "once", "twice"}
    /\ \E lists \in ReuseLists, version_dates \in ReuseDates :
       \E o \in solve_hitting_set_with_cache(lists, version_dates, s_cache) :
          /\ s_lists' = lists
          /\ s_dates' = version_dates
          /\ s_cache' = o.cache
          /\ s_out' = Append(s_out, [lists |-> lists, version_dates |-> version_dates,
                                     raised |-> o.raised, solution |-> o.solution,
                                     solved |-> o.solved])
    /\ s_pc' = CASE s_pc = "ready" -> "once"
                 [] s_pc = "once" -> "twice"
                 [] OTHER -> "thrice"
    /\ UNCHANGED <<driver_vars, export_vars, worker>>

NextReuse == ReuseCall

SpecReuse == InitReuse /\ [][NextReuse]_vars

-----------------------------------------------------------------------------
(* Claims about the solver *)

SolveReturned == s_pc = "done" /\ s_out.raised = "none"

HittingSet == Range(s_out.value)

Hits(lists, S) == \A i \in DOMAIN lists : Range(lists[i]) \cap S # {}

\* C1: the set H returned by solve_hitting_set intersects every input list,
\* is a subset of the union of the lists, and no set of smaller cardinality
\* intersects every list.
C1_MinimumHittingSet ==
    SolveReturned =>
        /\ Hits(s_lists, HittingSet)
        /\ HittingSet \subseteq AllVersionsOf(s_lists)
        /\ Len(s_out.value) = Cardinality(HittingSet)
        /\ \A S \in SUBSET AllVersionsOf(s_lists) :
              Cardinality(S) < Cardinality(HittingSet) => ~Hits(s_lists, S)

\* C1 witness: two entries sharing one version give a set of size 1
C1_Witness ==
    /\ SolveReturned
    /\ s_lists = <<(<<1, 2>>), (<<2, 3>>)>>
    /\ HittingSet = {2}

\* date(v): the whole seconds of v's date
DateOf(v) == s_dates[v] \div TicksPerSecond

DateSum(S) == SumOver(S, [v \in S |-> DateOf(v)])

IsMinimumHittingSet(S) ==
    /\ S \subseteq AllVersionsOf(s_lists)
    /\ Hits(s_lists, S)
    /\ \A T \in SUBSET AllVersionsOf(s_lists) :
          Hits(s_lists, T) => Cardinality(S) <= Cardinality(T)

\* C2: among all minimum-cardinality hitting sets of the input lists, the
\* returned set has the largest sum of date(v).
C2_MaximumDateSum ==
    SolveReturned =>
        \A S \in SUBSET AllVersionsOf(s_lists) :
            IsMinimumHittingSet(S) => DateSum(S) <= DateSum(HittingSet)

\* C2 witness: E1={v1,v2}, E2={v2,v3}, E3={v1,v3} with date(v1) < date(v2) <
\* date(v3), equally spaced, give {v2,v3}
C2_Witness ==
    /\ SolveReturned
    /\ s_lists = <<(<<1, 2>>), (<<2, 3>>), (<<1, 3>>)>>
    /\ DateOf(1) = 0 /\ DateOf(2) = 1 /\ DateOf(3) = 2
    /\ HittingSet = {2, 3}

-----------------------------------------------------------------------------
(* Claims about the solver's cache *)

\* C12: the cache key of solve_hitting_set_with_cache is the same for any
\* permutation of the lists, any permutation of the elements inside each
\* list, and any insertion order of the items of version_dates.
C12_KeyIsCanonical ==
    s_pc = "done" => s_out.key = s_out.permuted_key

\* C12 witness: the key of two lists was computed for the lists swapped, their
\* elements rearranged and the dates inserted in another order
C12_Witness ==
    /\ s_pc = "done"
    /\ s_lists = <<(<<3, 1>>), (<<2>>)>>
    /\ s_out.lists_differ
    /\ s_out.items_differ

-----------------------------------------------------------------------------
\* C13: after a call of solve_hitting_set_with_cache that returned, a second
\* call with the same lists and dates and the cache item of the first returns
\* the stored solution verbatim, does not invoke the solver and leaves the
\* cache item unchanged.
C13_SecondCallHits ==
    (s_pc = "twice" /\ s_out[1].raised = "none") =>
        /\ s_out[2].raised = "none"
        /\ s_out[2].solution = s_out[1].solution
        /\ s_out[2].solved = 0
        /\ s_out[2].cache = s_out[1].cache
        /\ arguments_hash(s_lists, s_dates) \in DOMAIN s_out[1].cache.hitting_set_results

\* C13 witness: the first call solved a problem with several optimal answers
\* and added its solution to a cache item that held another one
C13_Witness ==
    /\ s_pc = "twice"
    /\ s_cache = OtherSolutionCache
    /\ s_lists = <<(<<1, 2>>), (<<2, 3>>), (<<1, 3>>)>>
    /\ s_dates = [v \in SolverVersions |-> 0]
    /\ s_out[1].raised = "none" /\ s_out[1].solved = 1
    /\ s_out[2].solution = <<3, 1>>

-----------------------------------------------------------------------------
\* the calls of the reuse harness that returned
ReturnedCalls == {k \in DOMAIN s_out : s_out[k].raised = "none"}

-----------------------------------------------------------------------------
(* Claims about the conversion and the driver *)

\* the tasks whose conversion ended without an uncaught exception
Returned == {r \in DOMAIN futures :
                futures[r].state # "pending" /\ futures[r].result.exception = "none"}

ItemsOf(d, repo_url) == {i \in d.items : i.repo_url = repo_url}
RevisionsOf(d, repo_url) == {rev \in d.revisions : rev.repo_url = repo_url}

CommitsOfItems(items) == UNION {Range(i.commits) : i \in items}
CommitsOfRevisions(revisions) == {rev.commit : rev \in revisions}

\* the OSV items of a task that pass the withdrawn / no-versions filter
Surviving(r) ==
    {e \in Range(futures[r].args.osv_items) : ~e.withdrawn /\ e.versions # <<>>}

SurvivingVersions(r) == UNION {Range(e.versions) : e \in Surviving(r)}

Resolved(r, v) == get_version_info(r, v) # None

\* C3: in every committed state of the store, every commit of a vulnerability
\* record has a revision record with the same repo_url.
C3_CommitsHaveRevisions ==
    \A V \in db.items : \A c \in Range(V.commits) :
        \E R \in db.revisions : R.repo_url = V.repo_url /\ R.commit = c

\* C3 witness: after a re-run, and the write of a failed repository, the store
\* holds a vulnerability record with commits
C3_Witness ==
    /\ runs = 2
    /\ \E V \in db.items : V.commits # <<>>
    /\ \E r \in DOMAIN futures :
          futures[r].state = "taken" /\ futures[r].result.status = "REPO_NOT_FOUND"

\* C4: the commits of the revision records a conversion returns are the union
\* of the commits of the vulnerability records it returns, and so for the
\* records the store holds for a repository.
C4_RevisionsAreUnionOfCommits ==
    /\ \A r \in Returned :
          CommitsOfRevisions(Range(futures[r].result.revisions))
              = CommitsOfItems(Range(futures[r].result.items))
    /\ \A U \in RepoUrls :
          CommitsOfRevisions(RevisionsOf(db, U)) = CommitsOfItems(ItemsOf(db, U))

\* C4 witness: a conversion returned two revisions, each referenced by one of
\* two vulnerability records, and the store holds them after the write
C4_Witness ==
    \E r \in Returned :
        /\ futures[r].state = "taken"
        /\ Cardinality(CommitsOfRevisions(Range(futures[r].result.revisions))) = 2
        /\ Cardinality(ItemsOf(db, r)) = 2
        /\ CommitsOfRevisions(RevisionsOf(db, r)) = {"c1", "c2"}

\* C5: the per-repo write is atomic: the committed store changes only in the
\* step that commits, which replaces exactly the repository's records by the
\* new ones; every other step (a crash, a failed insert, a delete before the
\* commit) leaves the committed store as it was.
C5_AtomicWrite ==
    [][db' # db =>
        /\ pc = "commit" /\ pc' = "cache"
        /\ ItemsOf(db', cur) = Range(futures[cur].result.items)
        /\ RevisionsOf(db', cur) = Range(futures[cur].result.revisions)
        /\ \A U \in RepoUrls \ {cur} :
              ItemsOf(db', U) = ItemsOf(db, U) /\ RevisionsOf(db', U) = RevisionsOf(db, U)
      ]_vars

\* C5 witness: in the middle of the write of a repository the transaction has
\* deleted its old records and holds new ones, the committed store still has
\* the old ones
C5_Witness ==
    /\ pc = "commit"
    /\ ItemsOf(db, cur) # {}
    /\ ItemsOf(session, cur) = {}
    /\ session.new_items # <<>>

\* C6 (the claim as stated): an OSV entry whose affected versions are all
\* unresolved by git produces no vulnerability record; E1={v1,vX}, E2={vX}
\* gives exactly one vulnerability record (E1) and one revision record.
C6_UnresolvedEntryDropped ==
    \A r \in Returned :
        futures[r].result.status = "OK" =>
            /\ \A k \in DOMAIN futures[r].result.items :
                  \E e \in Surviving(r) :
                      /\ e.id = futures[r].result.items[k].id
                      /\ \E v \in Range(e.versions) : Resolved(r, v)
            /\ (futures[r].args.osv_items =
                    <<Entry("E1", r, <<1, 4>>, FALSE), Entry("E2", r, <<4>>, FALSE)>>
                => /\ Len(futures[r].result.items) = 1
                   /\ futures[r].result.items[1].id = "E1"
                   /\ Len(futures[r].result.revisions) = 1)

\* C7: no returned vulnerability record has the id of an entry that is
\* withdrawn or has no affected version; when every entry is filtered the
\* conversion returns nothing, the cache item unchanged, OK, without cloning.
C7_FilteredEntriesExcluded ==
    \A r \in Returned :
        /\ \A k \in DOMAIN futures[r].result.items :
              \A e \in Range(futures[r].args.osv_items) :
                  e.id = futures[r].result.items[k].id =>
                      ~e.withdrawn /\ e.versions # <<>>
        /\ Surviving(r) = {} =>
              /\ futures[r].result.items = <<>>
              /\ futures[r].result.revisions = <<>>
              /\ futures[r].result.cache = futures[r].args.cache
              /\ futures[r].result.status = "OK"
              /\ futures[r].result.clones = 0

\* C7 witness: a conversion of a group with a withdrawn entry returned records
C7_Witness ==
    \E r \in Returned :
        /\ \E e \in Range(futures[r].args.osv_items) : e.withdrawn
        /\ futures[r].result.items # <<>>

\* C8: when git resolved none of the affected versions of the surviving
\* entries, the conversion returns no record, status OK, and the solver is
\* not invoked.
C8_AllUnresolved ==
    \A r \in DOMAIN futures :
        (/\ futures[r].state # "pending"
         /\ Surviving(r) # {}
         /\ \A v \in SurvivingVersions(r) :
               /\ v \in DOMAIN futures[r].result.cache.versions_info
               /\ futures[r].result.cache.versions_info[v] = None)
        => /\ futures[r].result.exception = "none"
           /\ futures[r].result.status = "OK"
           /\ futures[r].result.items = <<>>
           /\ futures[r].result.revisions = <<>>
           /\ futures[r].result.solved = 0

\* C8 witness: the conversion of a group whose only version is unknown to git
\* cloned the repository and returned
C8_Witness ==
    \E r \in Returned :
        /\ Surviving(r) # {}
        /\ \A v \in SurvivingVersions(r) : ~Resolved(r, v)
        /\ futures[r].result.clones = 1
        /\ futures[r].result.status = "OK"

\* C9: a conversion that raised RepoNotFoundError, GitRuntimeError or
\* LinguistError returns empty lists with the status of that exception, and
\* the status is OK only when no such exception was raised.
C9_MappedExceptions ==
    \A r \in Returned :
        LET res == futures[r].result
        IN  /\ res.raised = "RepoNotFoundError" => res.status = "REPO_NOT_FOUND"
            /\ res.raised = "GitRuntimeError" => res.status = "GIT_RUNTIME_ERROR"
            /\ res.raised = "LinguistError" => res.status = "LINGUIST_ERROR"
            /\ res.raised # "none" => res.items = <<>> /\ res.revisions = <<>>
            /\ res.status = "OK" <=> res.raised = "none"

\* C9 witness: the classifier failed after the versions were resolved and the
\* hitting set solved
C9_Witness ==
    \E r \in Returned :
        /\ futures[r].result.status = "LINGUIST_ERROR"
        /\ futures[r].result.solved = 1

\* the conversion of r failed with a gateway exception after the versions
\* were resolved: in the classifier, or in a clone that follows the solver
FailedWithAdditions(r) ==
    /\ futures[r].result.exception = "none"
    /\ futures[r].result.status # "OK"
    /\ futures[r].result.raised = "LinguistError" \/ futures[r].result.solved = 1

\* C10: the cache item returned with a non-OK status contains the version
\* resolutions and the solver result added before the failure, and the driver
\* stores it and writes the cache because it differs from its own copy.
C10_FailedRepoCacheKept ==
    /\ [](\A r \in DOMAIN futures :
            (futures[r].state # "pending" /\ FailedWithAdditions(r)) =>
                LET old == futures[r].args.cache
                    new == futures[r].result.cache
                IN  /\ \A v \in SurvivingVersions(r) :
                          /\ v \in DOMAIN new.versions_info
                          /\ new.versions_info[v] = get_version_info(r, v)
                    /\ \A v \in DOMAIN old.versions_info :
                          new.versions_info[v] = old.versions_info[v]
                    /\ Cardinality(DOMAIN new.hitting_set_results)
                          = Cardinality(DOMAIN old.hitting_set_results)
                              + futures[r].result.solved)
    /\ [][(/\ pc = "cache" /\ pc' = "as_completed"
           /\ futures[cur].result.status # "OK"
           /\ futures[cur].result.cache # futures[cur].args.cache)
          => /\ self_cache'[cur] = futures[cur].result.cache
             /\ disk_cache' = self_cache'
             /\ disk_cache # disk_cache']_vars

\* C10 witness: the driver handled a repository that failed after its cache
\* item gained entries, and the cache file holds the returned item
C10_Witness ==
    \E r \in DOMAIN futures :
        /\ futures[r].state = "taken"
        /\ FailedWithAdditions(r)
        /\ futures[r].result.cache # futures[r].args.cache
        /\ r \in DOMAIN disk_cache
        /\ disk_cache[r] = futures[r].result.cache

\* the driver is inside the write transaction of cur, or at its cache update
WritePcs == {"delete_items", "delete_revisions", "add_items", "add_revisions", "commit", "cache"}

\* the exceptions convert_one_inner does not catch
UnmappedExceptions == {"ValueError", "KeyError"}

\* C11: when a task raised an exception that has no status code, the driver
\* never opens a write transaction or a cache write for it; the step in which
\* it observes the exception ends convert_list with that exception, cancels
\* every future, and leaves the store (the records committed earlier in the
\* run included) and the cache file as they were.
C11_UnmappedExceptionAborts ==
    /\ [](\A r \in DOMAIN futures :
            futures[r].result.exception # "none" =>
                /\ futures[r].state # "taken"
                /\ ~(pc \in WritePcs /\ cur = r))
    /\ [][ended' \in UnmappedExceptions =>
            /\ pc = "as_completed"
            /\ \E r \in DOMAIN futures :
                  futures[r].state = "finished" /\ futures[r].result.exception = ended'
            /\ pc' = "idle"
            /\ futures' = <<>>
            /\ session' = NoSession
            /\ db' = db
            /\ disk_cache' = disk_cache]_vars

\* C11 witness: the solver failed to prove optimality for one repository after
\* the other repository of the run was written
C11_Witness ==
    /\ ended = "ValueError"
    /\ runs = 1
    /\ \E U \in RepoUrls : handled[U] = "OK" /\ ItemsOf(db, U) # {}

\* the cache item the cache file holds for a repository
DiskItem(r) == IF r \in DOMAIN disk_cache THEN disk_cache[r] ELSE EmptyCacheItem

\* C14: a conversion of R that follows a completed handling of R (records
\* committed with status OK, cache written) with unchanged OSV entries commits
\* records equal to those the store holds, without cloning or solving; and
\* until the commit of R a run leaves the records and the cache item of R as
\* they were when it started, so that R re-run after an interruption starts
\* from the state the interrupted run started from.
C14_RerunIdempotent ==
    /\ [][(pc = "commit" /\ pc' = "cache" /\ handled[cur] = "OK") =>
            /\ ItemsOf(db', cur) = ItemsOf(db, cur)
            /\ RevisionsOf(db', cur) = RevisionsOf(db, cur)
            /\ futures[cur].result.status = "OK"
            /\ futures[cur].result.cache = DiskItem(cur)
            /\ futures[cur].result.clones = 0
            /\ futures[cur].result.solved = 0]_vars
    /\ [](\A r \in DOMAIN futures :
            (futures[r].state \in {"pending", "finished"} /\ ~(cur = r /\ pc = "cache")) =>
                /\ RevisionsOf(db, r) = futures[r].args.existing_revisions
                /\ DiskItem(r) = futures[r].args.cache)

\* C14 witness: the second run committed the records of a repository whose
\* first run had been completed with records
C14_Witness ==
    /\ runs = 2
    /\ pc = "cache"
    /\ handled[cur] = "OK"
    /\ Cardinality(ItemsOf(db, cur)) = 2
    /\ RevisionsOf(db, cur) # {}

\* a step leaves the rows and the cache items of the repositories that are
\* not in the run as they are (the cache in memory is dropped when the
\* process ends)
OutsideRunUnchanged ==
    \A U \in RepoUrls \ DOMAIN futures :
        /\ ItemsOf(db', U) = ItemsOf(db, U)
        /\ RevisionsOf(db', U) = RevisionsOf(db, U)
        /\ pc' # "idle" => (U \in DOMAIN self_cache' <=> U \in DOMAIN self_cache)
        /\ (pc' # "idle" /\ U \in DOMAIN self_cache) => (self_cache'[U] = self_cache[U])

\* C15: whatever the order in which the tasks complete and are handled, once
\* a repository of the run is handled the store holds exactly the records of
\* its task's result and the cache in memory holds the cache item of the
\* result, until convert_list ends; the rows and cache items of repositories
\* that are not in the run do not change.  So the contents convert_list
\* returns with are determined by the task results alone.
C15_OrderIndependent ==
    /\ [](\A r \in DOMAIN futures :
            futures[r].state = "taken" =>
                /\ ItemsOf(db, r) = Range(futures[r].result.items)
                /\ RevisionsOf(db, r) = InsertedRevisions(r)
                /\ self_cache[r] = futures[r].result.cache)
    /\ [][(pc \in WritePcs \cup {"as_completed"}) => OutsideRunUnchanged]_vars

\* C15 witness: convert_list is about to return after handling two
\* repositories, one with records and one that failed
C15_Witness ==
    /\ pc = "as_completed"
    /\ DOMAIN futures = RepoUrls
    /\ \A r \in RepoUrls : futures[r].state = "taken"
    /\ \E r \in RepoUrls : Cardinality(RevisionsOf(db, r)) = 2
    /\ \E r \in RepoUrls : futures[r].result.status = "LINGUIST_ERROR"


\* a step of the write transaction of cur changes, in the transaction and in
\* the committed tables, only rows whose repo_url is cur
WriteStepFrame ==
    /\ pc' \in WritePcs \ {"cache"} =>
          /\ \A U \in RepoUrls \ {cur} :
                /\ ItemsOf(session', U) = ItemsOf(session, U)
                /\ RevisionsOf(session', U) = RevisionsOf(session, U)
          /\ \A i \in DOMAIN session'.new_items : session'.new_items[i].repo_url = cur
          /\ \A i \in DOMAIN session'.new_revisions : session'.new_revisions[i].repo_url = cur
    /\ \A U \in RepoUrls \ {cur} :
          /\ ItemsOf(db', U) = ItemsOf(db, U)
          /\ RevisionsOf(db', U) = RevisionsOf(db, U)

\* C16: the write transaction of repository R deletes and inserts only rows
\* whose repo_url is R; the vulnerability and revision rows of every other
\* repository are unchanged by each of its steps and by its commit.
C16_WriteFrame ==
    [][(pc \in WritePcs \ {"cache"}) => WriteStepFrame]_vars

\* C16 witness: the transaction of one repository has deleted its rows and
\* holds its new ones while the store holds the rows of the other repository
C16_Witness ==
    /\ pc = "commit"
    /\ ItemsOf(db, cur) # {} /\ ItemsOf(session, cur) = {}
    /\ session.new_items # <<>> /\ session.new_revisions # <<>>
    /\ \E U \in RepoUrls \ {cur} :
          /\ ItemsOf(session, U) # {} /\ ItemsOf(session, U) = ItemsOf(db, U)
          /\ RevisionsOf(session, U) # {}


\* C17: a conversion changes or removes no entry of the cache item it is
\* given: every key of versions_info and of hitting_set_results present before
\* is present in the returned item with the same value; keys are added only
\* for versions that were looked up in git and by a call of the solver.
C17_CacheEntriesKept ==
    \A r \in Returned :
        LET old == futures[r].args.cache
            new == futures[r].result.cache
        IN  /\ \A v \in DOMAIN old.versions_info :
                  v \in DOMAIN new.versions_info
                  /\ new.versions_info[v] = old.versions_info[v]
            /\ \A k \in DOMAIN old.hitting_set_results :
                  k \in DOMAIN new.hitting_set_results
                  /\ new.hitting_set_results[k] = old.hitting_set_results[k]
            /\ DOMAIN new.versions_info \ DOMAIN old.versions_info = futures[r].result.asked
            /\ Cardinality(DOMAIN new.hitting_set_results \ DOMAIN old.hitting_set_results)
                  <= futures[r].result.solved

\* C17 witness: a conversion was given a cache item with a resolved version
\* and a solution, and added a version and a solution to it
C17_Witness ==
    \E r \in Returned :
        LET old == futures[r].args.cache
            new == futures[r].result.cache
        IN  /\ old.versions_info # <<>> /\ old.hitting_set_results # <<>>
            /\ DOMAIN new.versions_info # DOMAIN old.versions_info
            /\ DOMAIN new.hitting_set_results # DOMAIN old.hitting_set_results

\* the clone of the version lookup failed: a gateway exception of the clone
\* while some surviving version was not in the cache item
VersionLookupFailed(r) ==
    /\ futures[r].result.raised \in {"RepoNotFoundError", "GitRuntimeError"}
    /\ ~(SurvivingVersions(r) \subseteq DOMAIN futures[r].args.cache.versions_info)

\* C18: after a conversion whose version lookup did not fail (it went on to
\* the solver or returned early), every affected version of the surviving
\* entries is a key of the returned cache item's versions_info, mapped to the
\* (commit, date) git resolves it to and to null when git does not know it;
\* a version that was in the cache item, null included, is not looked up.
C18_VersionsRecorded ==
    \A r \in Returned :
        /\ ~VersionLookupFailed(r) =>
              \A v \in SurvivingVersions(r) :
                  /\ v \in DOMAIN futures[r].result.cache.versions_info
                  /\ futures[r].result.cache.versions_info[v] = get_version_info(r, v)
        /\ futures[r].result.asked \cap DOMAIN futures[r].args.cache.versions_info = {}
        /\ futures[r].result.asked \subseteq SurvivingVersions(r)

\* C18 witness: a conversion was given a cache item that records a version as
\* unknown to git, looked up another version and went on to the solver
C18_Witness ==
    \E r \in Returned :
        /\ \E v \in SurvivingVersions(r) :
              /\ v \in DOMAIN futures[r].args.cache.versions_info
              /\ futures[r].args.cache.versions_info[v] = None
        /\ futures[r].result.asked # {}
        /\ futures[r].result.solved = 1


\* C19: every revision record in the store has size equal to the sum of the
\* values of its languages map, the records reused from an earlier run
\* included.
C19_SizeIsSumOfLanguages ==
    \A rev \in db.revisions :
        rev.size = SumOver(DOMAIN rev.languages, rev.languages)

\* C19 witness: the second run wrote two revision records of a repository
\* without measuring any: both are reused from the store
C19_Witness ==
    /\ runs = 2
    /\ pc = "cache"
    /\ futures[cur].result.measured = {}
    /\ Cardinality(RevisionsOf(db, cur)) = 2
    /\ \E rev \in RevisionsOf(db, cur) : rev.languages.C > 0


\* the step that handles the cache of cur replaces the item and writes the
\* cache file when the returned item differs from the driver's, which it does
\* only when the conversion added an entry; otherwise it leaves both
CacheStepWrites ==
    IF futures[cur].result.cache # self_cache[cur]
    THEN /\ self_cache' = [self_cache EXCEPT ![cur] = futures[cur].result.cache]
         /\ disk_cache' = self_cache'
         /\ disk_cache' # disk_cache
         /\ futures[cur].result.cache # futures[cur].args.cache
    ELSE /\ self_cache' = self_cache
         /\ disk_cache' = disk_cache

\* C21: the driver reaches the cache handling of a completed task only by the
\* commit of its write transaction; there it replaces its cache item and
\* writes the cache exactly when the returned item differs from its own; the
\* cache file changes in no other step, so at most once per completed task and
\* never for a conversion that added no cache entry.
C21_CacheAfterCommit ==
    /\ [][(pc # "cache" /\ pc' = "cache") => (pc = "commit" /\ db' = committed(session))]_vars
    /\ [][(pc = "cache" /\ pc' = "as_completed") => CacheStepWrites]_vars
    /\ [][(disk_cache' # disk_cache) =>
            /\ pc = "cache" /\ pc' = "as_completed"
            /\ futures[cur].state = "finished"
            /\ futures'[cur].state = "taken"]_vars

\* C21 witness: in one run the driver wrote the cache for a repository whose
\* conversion added entries and did not for one whose conversion added none
C21_Witness ==
    /\ pc = "as_completed"
    /\ \E r \in DOMAIN futures :
          /\ futures[r].state = "taken"
          /\ futures[r].result.cache # futures[r].args.cache
          /\ disk_cache[r] = futures[r].result.cache
    /\ \E r \in DOMAIN futures :
          /\ futures[r].state = "taken"
          /\ futures[r].result.cache = futures[r].args.cache
          /\ disk_cache[r] = EmptyCacheItem

\* the surviving entry of a task that has the id of a returned record
EntryOf(r, item) == CHOOSE e \in Surviving(r) : e.id = item.id

\* the commit the conversion's versions_info maps a version to
CommitOfVersion(r, v) == futures[r].result.cache.versions_info[v][1]

\* C22: in a conversion that returned OK with records, the commits of each
\* vulnerability record are exactly the commits of the hitting-set versions
\* that are among the affected versions of its entry, and the list is not
\* empty for an entry with an affected version that git resolves.
C22_CommitsAreHittingSetCommits ==
    \A r \in Returned :
        (futures[r].result.status = "OK" /\ futures[r].result.items # <<>>) =>
            \A k \in DOMAIN futures[r].result.items :
                LET item == futures[r].result.items[k]
                    affected == Range(EntryOf(r, item).versions)
                IN  /\ \E e \in Surviving(r) : e.id = item.id
                    /\ Range(item.commits) =
                          {CommitOfVersion(r, v) :
                              v \in Range(futures[r].result.hitting_set) \cap affected}
                    /\ (\E v \in affected : Resolved(r, v)) => item.commits # <<>>

\* C22 witness: a conversion that took a hitting set of two versions from the
\* cache item returned two records with different commits
C22_Witness ==
    \E r \in Returned :
        /\ futures[r].result.status = "OK"
        /\ Len(futures[r].result.items) = 2
        /\ futures[r].result.items[1].commits # futures[r].result.items[2].commits
        /\ futures[r].result.items[1].commits # <<>>
        /\ Len(futures[r].result.hitting_set) = 2
        /\ futures[r].result.solved = 0

\* C23: in a conversion that returned OK, a revision record whose commit has a
\* record among the existing revisions passed to the conversion is that
\* record (same date, languages and size) and its commit was not measured;
\* the commits measured are those of the returned records without one.
C23_ExistingRevisionsReused ==
    \A r \in Returned :
        futures[r].result.status = "OK" =>
            LET existing == futures[r].args.existing_revisions
                res == futures[r].result
            IN  /\ \A k \in DOMAIN res.revisions :
                      IF res.revisions[k].commit \in CommitsOfRevisions(existing)
                      THEN /\ res.revisions[k] \in existing
                           /\ res.revisions[k].commit \notin res.measured
                      ELSE res.revisions[k].commit \in res.measured
                /\ res.measured \subseteq CommitsOfRevisions(Range(res.revisions))

\* C23 witness: a conversion returned two revision records, one reused from
\* the existing revisions and one measured
C23_Witness ==
    \E r \in Returned :
        /\ futures[r].result.status = "OK"
        /\ Len(futures[r].result.revisions) = 2
        /\ \E k \in DOMAIN futures[r].result.revisions :
              futures[r].result.revisions[k] \in futures[r].args.existing_revisions
        /\ Cardinality(futures[r].result.measured) = 1

\* every affected version of the surviving entries is in the cache item
\* passed to the conversion
AllVersionsCached(r) ==
    SurvivingVersions(r) \subseteq DOMAIN futures[r].args.cache.versions_info

\* every commit of a hitting-set version has a record among the existing
\* revisions passed to the conversion
HittingSetCovered(r) ==
    \A v \in Range(futures[r].result.hitting_set) :
        CommitOfVersion(r, v) \in CommitsOfRevisions(futures[r].args.existing_revisions)

\* C24: a conversion, however it ends, clones the repository at most once,
\* and clones it only when an affected version is missing from the cache
\* item's versions_info or a hitting-set commit has no existing revision
\* record: with every version cached and every hitting-set commit recorded
\* there is no clone.
C24_LazyClone ==
    \A r \in DOMAIN futures :
        futures[r].state # "pending" =>
            /\ futures[r].result.clones \in {0, 1}
            /\ futures[r].result.clones = 1 =>
                  ~AllVersionsCached(r) \/ ~HittingSetCovered(r)

\* C24 witness: a conversion with every version cached cloned the repository
\* once, for a hitting-set commit without a revision record beside one that
\* has a record
C24_Witness ==
    \E r \in Returned :
        /\ AllVersionsCached(r)
        /\ ~HittingSetCovered(r)
        /\ futures[r].args.existing_revisions # {}
        /\ futures[r].result.status = "OK"
        /\ futures[r].result.clones = 1
        /\ Len(futures[r].result.revisions) = 2

\* C26 (the claim as stated): the revision records a conversion returns have
\* pairwise distinct commits, also when two hitting-set versions resolve to
\* one commit, so that their insertion never violates the primary key
\* (repo_url, commit) of the revisions table.
C26_DistinctRevisionCommits ==
    /\ \A r \in Returned :
          \A i, j \in DOMAIN futures[r].result.revisions :
              futures[r].result.revisions[i].commit = futures[r].result.revisions[j].commit
                  => i = j
    /\ ended # "IntegrityError"

NotOkStatuses == {"REPO_NOT_FOUND", "GIT_RUNTIME_ERROR", "LINGUIST_ERROR"}

\* C27: the driver takes the result of a task that returned a status other
\* than OK as any result: its write transaction deletes the rows of the
\* repository, inserts none and commits, so that after the commit the store
\* holds no vulnerability record and no revision record of the repository,
\* whatever an earlier run had stored.
C27_FailedRepoEmptied ==
    /\ [](\A r \in DOMAIN futures :
            (futures[r].state # "pending" /\ futures[r].result.status \in NotOkStatuses) =>
                /\ futures[r].result.exception = "none"
                /\ futures[r].result.items = <<>>
                /\ futures[r].result.revisions = <<>>
                /\ futures[r].state = "taken" =>
                      ItemsOf(db, r) = {} /\ RevisionsOf(db, r) = {})
    /\ [][(pc = "commit" /\ futures[cur].result.status \in NotOkStatuses) =>
            /\ FlushOk(session)
            /\ pc' \in {"commit", "cache", "idle"}
            /\ pc' = "cache" =>
                  /\ ItemsOf(db', cur) = {}
                  /\ RevisionsOf(db', cur) = {}]_vars

\* C27 witness: the driver committed the write of a repository whose task
\* returned LINGUIST_ERROR, and the store, which held two vulnerability
\* records and a revision record of it from the earlier run, holds none
C27_Witness ==
    /\ pc = "cache"
    /\ futures[cur].result.status = "LINGUIST_ERROR"
    /\ futures[cur].args.existing_revisions # {}
    /\ handled[cur] = "OK"
    /\ ItemsOf(db, cur) = {}
    /\ RevisionsOf(db, cur) = {}

-----------------------------------------------------------------------------
\* the tasks of the run whose results are not written yet, other than the
\* one whose transaction is open
Unwritten == {r \in DOMAIN futures : futures[r].state # "taken" /\ r # cur}

\* C28: within one run of convert_list, when the write transaction of a
\* repository R begins, the revision records the store holds for R are the
\* existing revisions read for R before the tasks were submitted; a step of
\* the write transaction of another repository leaves the records of R equal
\* to that snapshot, in whatever order the tasks complete and are handled.
C28_SnapshotCurrent ==
    /\ [][(pc = "as_completed" /\ pc' = "delete_items") =>
            /\ RevisionsOf(db, cur') = futures[cur'].args.existing_revisions
            /\ RevisionsOf(session', cur') = futures[cur'].args.existing_revisions]_vars
    /\ [][(pc \in WritePcs) =>
            \A r \in Unwritten : RevisionsOf(db', r) = futures[r].args.existing_revisions]_vars

\* C28 witness: the transaction of a repository with existing revisions
\* begins after the transaction of another repository of the run changed
\* that repository's records
C28_Witness ==
    /\ pc = "delete_items"
    /\ futures[cur].args.existing_revisions # {}
    /\ RevisionsOf(session, cur) = futures[cur].args.existing_revisions
    /\ \E U \in DOMAIN futures \ {cur} :
          /\ futures[U].state = "taken"
          /\ RevisionsOf(db, U) # futures[U].args.existing_revisions

(* Claims about the temporary directory *)

\* C25 (the claim as stated): when the conversion has left temp_directory, on
\* whichever exit path, the temporary directory is deleted and the working
\* directory is the one saved at entry.
C25_TempDirectoryDeleted ==
    worker.pc = "exited" =>
        /\ worker.tmp_dir = "deleted"
        /\ worker.cwd = worker.saved_cwd

\* C25 (amended): on every exit path of the conversion the removal of the
\* temporary directory is attempted and the working directory is restored to
\* the one saved at entry; the directory is deleted unless the removal itself
\* fails, which is logged and not raised.
C25_TempDirectoryReleased ==
    /\ worker.pc = "exited" =>
          /\ worker.rmtree \in RmtreeOutcomes
          /\ worker.rmtree = "ok" => worker.tmp_dir = "deleted"
          /\ worker.cwd = worker.saved_cwd
          /\ worker.cwd \in Cwds
    /\ \A r \in DOMAIN futures : futures[r].state = "finished" => worker.pc = "exited"

\* C25 witness: a conversion that ended with an exception convert_one_inner
\* does not catch left the temporary directory deleted and the working
\* directory restored
C25_Witness ==
    /\ worker.pc = "exited"
    /\ \E r \in DOMAIN futures : futures[r].result.exception = "ValueError"
    /\ worker.tmp_dir = "deleted"
    /\ worker.cwd = worker.saved_cwd

-----------------------------------------------------------------------------
(* Claims about the export and the import *)

\* a vulnerability row with commits and cwes taken as sets
AsSets(item) ==
    [id |-> item.id, published |-> item.published, modified |-> item.modified,
     details |-> item.details, summary |-> item.summary, severity |-> item.severity,
     repo_url |-> item.repo_url, cwes |-> Range(item.cwes), commits |-> Range(item.commits)]

=============================================================================
